---- MODULE Spec2Model ----
(***************************************************************************)
(* Model of getbins_headless.py: the bin-collection table scraper.         *)
(*                                                                         *)
(* Python values are represented as follows.                               *)
(*   str            a TLA+ string; the result of str.lower(), which may    *)
(*                  hold characters no TLA+ string holds, is the sequence  *)
(*                  of its characters (LowerAlpha)                         *)
(*   None / value   an optional: None == <<>>, a present value v is <<v>>  *)
(*   dict           a function whose DOMAIN is the set of keys present     *)
(*   list           a sequence                                             *)
(*   datetime       wall-clock seconds since 2000-01-01 00:00 in the       *)
(*                  configured zone (both operands of every subtraction    *)
(*                  and comparison in the program carry the same tzinfo    *)
(*                  object, so Python compares and subtracts wall clocks)  *)
(*   timedelta      seconds (sub-second parts are not modelled)            *)
(* The integers of the checker are 32 bits wide: the wall clocks of the    *)
(* model are those of the years 1932 to 2067.                              *)
(* List positions keep Python's 0-based numbering; At0 reads one.          *)
(***************************************************************************)
EXTENDS Integers, Sequences, FiniteSets, TLC

VARIABLES TIMEZONE, clock, html, collections, db, prev, call, ret

vars == <<TIMEZONE, clock, html, collections, db, prev, call, ret>>

----------------------------------------------------------------------------
(* Optionals and 0-based lists *)

None == <<>>

Some(v) == <<v>>

IsNone(o) == o = <<>>

Val(o) == o[1]

At0(seq, i) == seq[i + 1]

----------------------------------------------------------------------------
(* Python str operations *)

Ch(s, i) == SubSeq(s, i, i)

(* A string of this module holds the characters below U+0100 and, from
   U+0100 on, those whose code ends in a byte from 80 to FF (U+0180 to
   U+01FF, U+0280 to U+02FF, and so on). The tables below list, of each
   class of characters the str methods of the program go by, the members
   such a string holds, by the Unicode 14.0 character database of
   CPython 3.11. *)

(* the characters of s, as a set *)
CharsOf(s) == {Ch(s, i) : i \in 1..Len(s)}

RECURSIVE IndexOf(_, _, _)
(* 1-based position of the one-character string c in s from i on, 0 if none *)
IndexOf(s, c, i) ==
    IF i > Len(s) THEN 0
    ELSE IF Ch(s, i) = c THEN i
    ELSE IndexOf(s, c, i + 1)

(* the characters str.isspace() holds for, which str.strip(), str.split()
   and the \s of strptime drop: U+0009 to U+000D, U+001C to U+0020, U+0085,
   U+00A0 and U+1680 *)
Whitespace ==
    CharsOf("\t\n\f\r   ")

(* the decimal digits (str.isdecimal(), the \d of strptime, int()), in runs
   of 0 to 9: U+0030, U+06F0, U+07C0, U+09E6, U+0AE6, U+0BE6, U+0CE6,
   U+0DE6, U+0ED0, U+1090, U+17E0, U+19D0, U+1A80, U+1A90, U+1BB0, U+A8D0,
   U+A9D0, U+A9F0 and U+ABF0 on *)
Digits ==
    "0123456789۰۱۲۳۴۵۶۷۸۹߀߁߂߃߄߅߆߇߈߉০১২৩৪৫৬৭৮৯૦૧૨૩૪૫૬૭૮૯௦௧௨௩௪௫"
    \o "௬௭௮௯೦೧೨೩೪೫೬೭೮೯෦෧෨෩෪෫෬෭෮෯໐໑໒໓໔໕໖໗໘໙႐႑႒႓႔႕႖႗႘႙០១២៣៤៥៦៧៨៩᧐᧑"
    \o "᧒᧓᧔᧕᧖᧗᧘᧙᪀᪁᪂᪃᪄᪅᪆᪇᪈᪉᪐᪑᪒᪓᪔᪕᪖᪗᪘᪙᮰᮱᮲᮳᮴᮵᮶᮷᮸᮹꣐꣑꣒꣓꣔꣕꣖꣗꣘꣙꧐꧑꧒꧓꧔꧕꧖꧗"
    \o "꧘꧙꧰꧱꧲꧳꧴꧵꧶꧷꧸꧹꯰꯱꯲꯳꯴꯵꯶꯷꯸꯹"

(* the number a decimal digit stands for *)
DigitValue ==
    [c \in CharsOf(Digits) |->
        ((CHOOSE i \in 1..Len(Digits) : Ch(Digits, i) = c) - 1) % 10]

(* the characters of s in order, each a one-character string *)
CharSeq(s) == [i \in 1..Len(s) |-> Ch(s, i)]

(* the letters str.lower() changes, other than the capital sigma. The
   lower-case letters of the last 93 (U+0181, U+0186, U+0189, U+018A,
   U+018F, U+0190, U+0193, U+0194, U+0196, U+0197, U+019C, U+019D, U+019F,
   U+03FD to U+03FF, U+10A0 to U+10C5, U+10C7, U+10CD, U+13A0 to U+13AF,
   U+1FBA, U+1FBB, U+1FC8 to U+1FCB, U+1FDA, U+1FDB, U+1FEA, U+1FEB,
   U+1FF8 to U+1FFB, U+A78D, U+A7AA to U+A7AE and U+A7B3) are characters
   no string of this module holds. *)
UpperAlpha ==
    "ABCDEFGHIJKLMNOPQRSTUVWXYZÀÁÂÃÄÅÆÇÈÉÊËÌÍÎÏÐÑÒÓÔÕÖØÙÚÛÜÝÞ"
    \o "ƂƄƇƋƎƑƘƠƢƤƦƧƩƬƮƯƱƲƳƵƷƸƼǄǅǇǈǊǋǍǏǑǓǕǗǙǛǞǠǢǤǦǨǪǬǮǱǲǴǶǷǸǺǼǾΆ"
    \o "ΈΉΊΌΎΏΑΒΓΔΕΖΗΘΙΚΛΜΝΞΟΠΡΤΥΦΧΨΩΪΫϏϘϚϜϞϠϢϤϦϨϪϬϮϴϷϹϺҀҊҌҎҐҒҔҖ"
    \o "ҘҚҜҞҠҢҤҦҨҪҬҮҰҲҴҶҸҺҼҾӀӁӃӅӇӉӋӍӐӒӔӖӘӚӜӞӠӢӤӦӨӪӬӮӰӲӴӶӸӺӼӾᎰᎱᎲᎳ"
    \o "ᎴᎵᎶᎷᎸᎹᎺᎻᎼᎽᎾᎿᏀᏁᏂᏃᏄᏅᏆᏇᏈᏉᏊᏋᏌᏍᏎᏏᏐᏑᏒᏓᏔᏕᏖᏗᏘᏙᏚᏛᏜᏝᏞᏟᏠᏡᏢᏣᏤᏥᏦᏧᏨᏩᏪᏫ"
    \o "ᏬᏭᏮᏯᏰᏱᏲᏳᏴᏵᲐᲑᲒᲓᲔᲕᲖᲗᲘᲙᲚᲛᲜᲝᲞᲟᲠᲡᲢᲣᲤᲥᲦᲧᲨᲩᲪᲫᲬᲭᲮᲯᲰᲱᲲᲳᲴᲵᲶᲷᲸᲹᲺᲽᲾᲿ"
    \o "ẀẂẄẆẈẊẌẎẐẒẔẞẠẢẤẦẨẪẬẮẰẲẴẶẸẺẼẾỀỂỄỆỈỊỌỎỐỒỔỖỘỚỜỞỠỢỤỦỨỪỬỮỰỲỴỶ"
    \o "ỸỺỼỾᾈᾉᾊᾋᾌᾍᾎᾏᾘᾙᾚᾛᾜᾝᾞᾟᾨᾩᾪᾫᾬᾭᾮᾯᾸᾹᾼῌῘῙῨῩῬῼↃⒶⒷⒸⒹⒺⒻⒼⒽⒾⒿⓀⓁⓂⓃⓄⓅⓆ"
    \o "ⓇⓈⓉⓊⓋⓌⓍⓎⓏⲀⲂⲄⲆⲈⲊⲌⲎⲐⲒⲔⲖⲘⲚⲜⲞⲠⲢⲤⲦⲨⲪⲬⲮⲰⲲⲴⲶⲸⲺⲼⲾⳀⳂⳄⳆⳈⳊⳌⳎⳐⳒⳔⳖⳘⳚⳜ"
    \o "ⳞⳠⳢⳫⳭⳲꚀꚂꚄꚆꚈꚊꚌꚎꚐꚒꚔꚖꚘꚚꞀꞂꞄꞆꞋꞐꞒꞖꞘꞚꞜꞞꞠꞢꞤꞦꞨꞰꞱꞲꞴꞶꞸꞺꞼꞾꟀꟂꟄꟅꟆꟇꟉꟐꟖꟘ"
    \o "Ꟶ"
    \o "ƁƆƉƊƏƐƓƔƖƗƜƝƟϽϾϿႠႡႢႣႤႥႦႧႨႩႪႫႬႭႮႯႰႱႲႳႴႵႶႷႸႹႺႻႼႽႾႿჀჁჂჃჄჅჇჍ"
    \o "ᎠᎡᎢᎣᎤᎥᎦᎧᎨᎩᎪᎫᎬᎭᎮᎯᾺΆῈΈῊΉῚΊῪΎῸΌῺΏꞍꞪꞫꞬꞭꞮꞳ"

(* what str.lower() makes of each of them, in the same order, as a sequence
   of characters. A character is written as a one-character string, and
   one that no string of this module holds as its name: "U+" and the four
   hexadecimal digits of its code point. *)
LowerAlpha ==
    CharSeq(
        "abcdefghijklmnopqrstuvwxyzàáâãäåæçèéêëìíîïðñòóôõöøùúûüýþ"
        \o "ƃƅƈƌǝƒƙơƣƥʀƨʃƭʈưʊʋƴƶʒƹƽǆǆǉǉǌǌǎǐǒǔǖǘǚǜǟǡǣǥǧǩǫǭǯǳǳǵƕƿǹǻǽǿά"
        \o "έήίόύώαβγδεζηθικλμνξοπρτυφχψωϊϋϗϙϛϝϟϡϣϥϧϩϫϭϯθϸϲϻҁҋҍҏґғҕҗ"
        \o "ҙқҝҟҡңҥҧҩҫҭүұҳҵҷҹһҽҿӏӂӄӆӈӊӌӎӑӓӕӗәӛӝӟӡӣӥӧөӫӭӯӱӳӵӷӹӻӽӿꮀꮁꮂꮃ"
        \o "ꮄꮅꮆꮇꮈꮉꮊꮋꮌꮍꮎꮏꮐꮑꮒꮓꮔꮕꮖꮗꮘꮙꮚꮛꮜꮝꮞꮟꮠꮡꮢꮣꮤꮥꮦꮧꮨꮩꮪꮫꮬꮭꮮꮯꮰꮱꮲꮳꮴꮵꮶꮷꮸꮹꮺꮻ"
        \o "ꮼꮽꮾꮿᏸᏹᏺᏻᏼᏽაბგდევზთიკლმნოპჟრსტუფქღყშჩცძწჭხჯჰჱჲჳჴჵჶჷჸჹჺჽჾჿ"
        \o "ẁẃẅẇẉẋẍẏẑẓẕßạảấầẩẫậắằẳẵặẹẻẽếềểễệỉịọỏốồổỗộớờởỡợụủứừửữựỳỵỷ"
        \o "ỹỻỽỿᾀᾁᾂᾃᾄᾅᾆᾇᾐᾑᾒᾓᾔᾕᾖᾗᾠᾡᾢᾣᾤᾥᾦᾧᾰᾱᾳῃῐῑῠῡῥῳↄⓐⓑⓒⓓⓔⓕⓖⓗⓘⓙⓚⓛⓜⓝⓞⓟⓠ"
        \o "ⓡⓢⓣⓤⓥⓦⓧⓨⓩⲁⲃⲅⲇⲉⲋⲍⲏⲑⲓⲕⲗⲙⲛⲝⲟⲡⲣⲥⲧⲩⲫⲭⲯⲱⲳⲵⲷⲹⲻⲽⲿⳁⳃⳅⳇⳉⳋⳍⳏⳑⳓⳕⳗⳙⳛⳝ"
        \o "ⳟⳡⳣⳬⳮⳳꚁꚃꚅꚇꚉꚋꚍꚏꚑꚓꚕꚗꚙꚛꞁꞃꞅꞇꞌꞑꞓꞗꞙꞛꞝꞟꞡꞣꞥꞧꞩʞʇʝꞵꞷꞹꞻꞽꞿꟁꟃꞔʂᶎꟈꟊꟑꟗꟙ"
        \o "ꟶ")
    \o <<"U+0253", "U+0254", "U+0256", "U+0257", "U+0259", "U+025B", "U+0260",
         "U+0263", "U+0269", "U+0268", "U+026F", "U+0272", "U+0275", "U+037B",
         "U+037C", "U+037D", "U+2D00", "U+2D01", "U+2D02", "U+2D03", "U+2D04",
         "U+2D05", "U+2D06", "U+2D07", "U+2D08", "U+2D09", "U+2D0A", "U+2D0B",
         "U+2D0C", "U+2D0D", "U+2D0E", "U+2D0F", "U+2D10", "U+2D11", "U+2D12",
         "U+2D13", "U+2D14", "U+2D15", "U+2D16", "U+2D17", "U+2D18", "U+2D19",
         "U+2D1A", "U+2D1B", "U+2D1C", "U+2D1D", "U+2D1E", "U+2D1F", "U+2D20",
         "U+2D21", "U+2D22", "U+2D23", "U+2D24", "U+2D25", "U+2D27", "U+2D2D",
         "U+AB70", "U+AB71", "U+AB72", "U+AB73", "U+AB74", "U+AB75", "U+AB76",
         "U+AB77", "U+AB78", "U+AB79", "U+AB7A", "U+AB7B", "U+AB7C", "U+AB7D",
         "U+AB7E", "U+AB7F", "U+1F70", "U+1F71", "U+1F72", "U+1F73", "U+1F74",
         "U+1F75", "U+1F76", "U+1F77", "U+1F7A", "U+1F7B", "U+1F78", "U+1F79",
         "U+1F7C", "U+1F7D", "U+0265", "U+0266", "U+025C", "U+0261", "U+026C",
         "U+026A", "U+AB53">>

(* the lower-case letter of each upper-case letter *)
LowerOf ==
    [c \in CharsOf(UpperAlpha) |->
        LowerAlpha[CHOOSE i \in 1..Len(UpperAlpha) : Ch(UpperAlpha, i) = c]]

UpperLetters == DOMAIN LowerOf

(* the character str.lower() makes of the character c, the capital sigma
   apart *)
LowerChar(c) == IF c \in UpperLetters THEN LowerOf[c] ELSE c

(* the cased characters that are not case-ignorable *)
CasedLetters ==
    CharsOf(
        "ABCDEFGHIJKLMNOPQRSTUVWXYZabcdefghijklmnopqrstuvwxyzªµºÀ"
        \o "ÁÂÃÄÅÆÇÈÉÊËÌÍÎÏÐÑÒÓÔÕÖØÙÚÛÜÝÞßàáâãäåæçèéêëìíîïðñòóôõöøùú"
        \o "ûüýþÿƀƁƂƃƄƅƆƇƈƉƊƋƌƍƎƏƐƑƒƓƔƕƖƗƘƙƚƛƜƝƞƟƠơƢƣƤƥƦƧƨƩƪƫƬƭƮƯưƱƲ"
        \o "ƳƴƵƶƷƸƹƺƼƽƾƿǄǅǆǇǈǉǊǋǌǍǎǏǐǑǒǓǔǕǖǗǘǙǚǛǜǝǞǟǠǡǢǣǤǥǦǧǨǩǪǫǬǭǮǯ"
        \o "ǰǱǲǳǴǵǶǷǸǹǺǻǼǽǾǿʀʁʂʃʄʅʆʇʈʉʊʋʌʍʎʏʐʑʒʓʕʖʗʘʙʚʛʜʝʞʟʠʡʢʣʤʥʦʧʨ"
        \o "ʩʪʫʬʭʮʯΆΈΉΊΌΎΏΐΑΒΓΔΕΖΗΘΙΚΛΜΝΞΟΠΡΣΤΥΦΧΨΩΪΫάέήίΰαβγδεζηθικ"
        \o "λμνξοπρςστυφχψωϊϋόύώϏϐϑϒϓϔϕϖϗϘϙϚϛϜϝϞϟϠϡϢϣϤϥϦϧϨϩϪϫϬϭϮϯϰϱϲ"
        \o "ϳϴϵϷϸϹϺϻϼϽϾϿҀҁҊҋҌҍҎҏҐґҒғҔҕҖҗҘҙҚқҜҝҞҟҠҡҢңҤҥҦҧҨҩҪҫҬҭҮүҰұҲҳ"
        \o "ҴҵҶҷҸҹҺһҼҽҾҿӀӁӂӃӄӅӆӇӈӉӊӋӌӍӎӏӐӑӒӓӔӕӖӗӘәӚӛӜӝӞӟӠӡӢӣӤӥӦӧӨөӪӫ"
        \o "ӬӭӮӯӰӱӲӳӴӵӶӷӸӹӺӻӼӽӾӿրցւփքօֆևֈႠႡႢႣႤႥႦႧႨႩႪႫႬႭႮႯႰႱႲႳႴႵႶႷႸႹႺ"
        \o "ႻႼႽႾႿჀჁჂჃჄჅჇჍაბგდევზთიკლმნოპჟრსტუფქღყშჩცძწჭხჯჰჱჲჳჴჵჶჷჸჹჺ"
        \o "ჽჾჿᎠᎡᎢᎣᎤᎥᎦᎧᎨᎩᎪᎫᎬᎭᎮᎯᎰᎱᎲᎳᎴᎵᎶᎷᎸᎹᎺᎻᎼᎽᎾᎿᏀᏁᏂᏃᏄᏅᏆᏇᏈᏉᏊᏋᏌᏍᏎᏏᏐᏑᏒᏓᏔ"
        \o "ᏕᏖᏗᏘᏙᏚᏛᏜᏝᏞᏟᏠᏡᏢᏣᏤᏥᏦᏧᏨᏩᏪᏫᏬᏭᏮᏯᏰᏱᏲᏳᏴᏵᏸᏹᏺᏻᏼᏽᲀᲁᲂᲃᲄᲅᲆᲇᲈᲐᲑᲒᲓᲔᲕᲖᲗ"
        \o "ᲘᲙᲚᲛᲜᲝᲞᲟᲠᲡᲢᲣᲤᲥᲦᲧᲨᲩᲪᲫᲬᲭᲮᲯᲰᲱᲲᲳᲴᲵᲶᲷᲸᲹᲺᲽᲾᲿᶀᶁᶂᶃᶄᶅᶆᶇᶈᶉᶊᶋᶌᶍᶎᶏᶐᶑ"
        \o "ᶒᶓᶔᶕᶖᶗᶘᶙᶚẀẁẂẃẄẅẆẇẈẉẊẋẌẍẎẏẐẑẒẓẔẕẖẗẘẙẚẛẜẝẞẟẠạẢảẤấẦầẨẩẪẫẬậẮ"
        \o "ắẰằẲẳẴẵẶặẸẹẺẻẼẽẾếỀềỂểỄễỆệỈỉỊịỌọỎỏỐốỒồỔổỖỗỘộỚớỜờỞởỠỡỢợỤụỦ"
        \o "ủỨứỪừỬửỮữỰựỲỳỴỵỶỷỸỹỺỻỼỽỾỿᾀᾁᾂᾃᾄᾅᾆᾇᾈᾉᾊᾋᾌᾍᾎᾏᾐᾑᾒᾓᾔᾕᾖᾗᾘᾙᾚᾛᾜᾝᾞ"
        \o "ᾟᾠᾡᾢᾣᾤᾥᾦᾧᾨᾩᾪᾫᾬᾭᾮᾯᾰᾱᾲᾳᾴᾶᾷᾸᾹᾺΆᾼιῂῃῄῆῇῈΈῊΉῌῐῑῒΐῖῗῘῙῚΊῠῡῢΰῤῥ"
        \o "ῦῧῨῩῪΎῬῲῳῴῶῷῸΌῺΏῼↃↄⒶⒷⒸⒹⒺⒻⒼⒽⒾⒿⓀⓁⓂⓃⓄⓅⓆⓇⓈⓉⓊⓋⓌⓍⓎⓏⓐⓑⓒⓓⓔⓕⓖⓗⓘⓙⓚ"
        \o "ⓛⓜⓝⓞⓟⓠⓡⓢⓣⓤⓥⓦⓧⓨⓩⲀⲁⲂⲃⲄⲅⲆⲇⲈⲉⲊⲋⲌⲍⲎⲏⲐⲑⲒⲓⲔⲕⲖⲗⲘⲙⲚⲛⲜⲝⲞⲟⲠⲡⲢⲣⲤⲥⲦⲧⲨ"
        \o "ⲩⲪⲫⲬⲭⲮⲯⲰⲱⲲⲳⲴⲵⲶⲷⲸⲹⲺⲻⲼⲽⲾⲿⳀⳁⳂⳃⳄⳅⳆⳇⳈⳉⳊⳋⳌⳍⳎⳏⳐⳑⳒⳓⳔⳕⳖⳗⳘⳙⳚⳛⳜⳝⳞⳟⳠ"
        \o "ⳡⳢⳣⳤⳫⳬⳭⳮⳲⳳꚀꚁꚂꚃꚄꚅꚆꚇꚈꚉꚊꚋꚌꚍꚎꚏꚐꚑꚒꚓꚔꚕꚖꚗꚘꚙꚚꚛꞀꞁꞂꞃꞄꞅꞆꞇꞋꞌꞍꞎꞐꞑꞒꞓꞔꞕ"
        \o "ꞖꞗꞘꞙꞚꞛꞜꞝꞞꞟꞠꞡꞢꞣꞤꞥꞦꞧꞨꞩꞪꞫꞬꞭꞮꞯꞰꞱꞲꞳꞴꞵꞶꞷꞸꞹꞺꞻꞼꞽꞾꞿꟀꟁꟂꟃꟄꟅꟆꟇꟈꟉꟊꟐꟑꟓ"
        \o "ꟕꟖꟗꟘꟙꟵꟶꟺꮀꮁꮂꮃꮄꮅꮆꮇꮈꮉꮊꮋꮌꮍꮎꮏꮐꮑꮒꮓꮔꮕꮖꮗꮘꮙꮚꮛꮜꮝꮞꮟꮠꮡꮢꮣꮤꮥꮦꮧꮨꮩꮪꮫꮬꮭꮮꮯ"
        \o "ꮰꮱꮲꮳꮴꮵꮶꮷꮸꮹꮺꮻꮼꮽꮾꮿ")

(* the case-ignorable characters *)
CaseIgnorable ==
    CharsOf(
        "'.:^¨­¯´·¸ʰʱʲʳʴʵʶʷʸʹʺʻʼʽʾʿˀˁ˂˃˄˅ˆˇˈˉˊˋˌˍˎˏːˑ˒˓˔˕˖˗˘˙˚˛˜˝"
        \o "˞˟ˠˡˢˣˤ˥˦˧˨˩˪˫ˬ˭ˮ˯˰˱˲˳˴˵˶˷˸˹˺˻˼˽˾˿΄΅·҃҄҅҆҇҈҉֑֖֛֚֒֓֔֕֗֘֙֜"
        \o "ְֱֲֳִֵֶַָׇֹֺֻּֽֿׁׂ֢֣֤֥֦֧֪ׅ֭֮֝֞֟֠֡֨֩֫֬֯ׄ״ۖۗۘۙۚۛۜ۝ۣ۟۠ۡۢۤۥۦ"
        \o "۪ۭۧۨ۫۬ަާިީުޫެޭޮޯް߲߫߬߭߮߯߰߱߳ߴߵߺ߽࢈࢐࢑࢙࢚࢛࢘࢜࢝࢞࢟ࣉ࣏࣐࣑࣒࣓࣊࣋࣌࣍࣎ࣔࣕࣖࣗ"
        \o "ࣘࣙࣚࣛࣜࣝࣞࣟ࣠࣡࣢ࣰࣱࣲࣣࣦࣩ࣭࣮࣯ࣶࣹࣺࣤࣥࣧࣨ࣪࣫࣬ࣳࣴࣵࣷࣸࣻࣼࣽࣾࣿঁ়ুূৃৄ্ৢৣ৾ઁં઼ુૂૃ"
        \o "ૄૅેૈ્ૢૣૺૻૼ૽૾૿ஂீ்ಁ಼ಿೆೌ್ೢೣඁ්ිීුූັິີຶື຺ຸູົຼໆ່້໊໋໌ໍ྄ཱྀྀྂྃ྆྇ྍྎ"
        \o "ྏྐྑྒྒྷྔྕྖྗྙྚྛྜྜྷྞྟྠྡྡྷྣྤྥྦྦྷྨྩྪྫྫྷྭྮྯྰྱྲླྴྵྶྷྸྐྵྺྻྼ࿆ႂႅႆႍႝჼ឴឵ិី"
        \o "ឹឺុូួំ៉៊់៌៍៎៏័៑្៓ៗ៝ᢅᢆᢩᪧ᪵᪶᪷᪸᪹᪺᪽᪰᪱᪲᪳᪴᪻᪼᪾ᪿᫀ᫃᫄᫊᫁᫂᫅᫆᫇᫈᫉᫋ᫌᫍᫎᮀᮁ"
        \o "ᮢᮣᮤᮥᮨᮩ᮫ᮬᮭ᯦ᯨᯩᯭᯯᯰᯱ᳔᳢᳣᳤᳥᳦᳧᳨᳕᳖᳗᳘᳙᳜᳝᳞᳟᳭᳐᳑᳒᳚᳛᳠᳴᳸᳹ᶛᶜᶝᶞᶟᶠᶡᶢᶣᶤᶥᶦᶧ"
        \o "ᶨᶩᶪᶫᶬᶭᶮᶯᶰᶱᶲᶳᶴᶵᶶᶷᶸᶹᶺᶻᶼᶽᶾᶿ᷐᷎᷂᷊᷏᷀᷁᷃᷄᷅᷆᷇᷈᷉᷋᷌᷑᷒ᷓᷔᷕᷖᷗᷘᷙᷚᷛᷜᷝᷞᷟ᷍"
        \o "᷺᷹᷽᷿᷷᷸ᷠᷡᷢᷣᷤᷥᷦᷧᷨᷩᷪᷫᷬᷭᷮᷯᷰᷱᷲᷳᷴ᷵᷻᷾᷶᷼᾽᾿῀῁῍῎῏῝῞῟῭΅`´῾ₐₑₒₓₔₕₖₗₘ"
        \o "ₙₚₛₜ⃒⃓⃘⃙⃚⃐⃑⃔⃕⃖⃗⃛⃜⃝⃞⃟⃠⃡⃢⃣⃤⃥⃦⃪⃫⃨⃬⃭⃮⃯⃧⃩⃰⳯⳰⳱ⷠⷡⷢⷣⷤⷥⷦⷧⷨⷩⷪⷫⷬⷭⷮⷯ"
        \o "゙゚ⷰⷱⷲⷳⷴⷵⷶⷷⷸⷹⷺⷻⷼⷽⷾⷿ゛゜ゝゞーヽヾꓸꓹꓺꓻꓼꓽꚜꚝꚞꚟ꛰꛱ꞈ꞉꞊ꟲꟳꟴꟸꟹ꣄ꣅ꣠꣡꣢꣣꣤꣥꣦꣧꣨"
        \o "꣩꣪꣫꣬꣭꣮꣯꣰꣱ꣿꦀꦁꦂ꦳ꦶꦷꦸꦹꦼꦽꧏꧥꧦꪴꪰꪲꪳꪷꪸꪾ꪿꫁ꫝꫬꫭꫳꫴ꫶ꯥꯨ꯭﮲﮳﮴﮵﮶﮷﮸﮹﮺﮻﮼﮽﮾﮿﯀"
        \o "﯁﯂﻿ﾞﾟ￣￹￺￻")

RECURSIVE CasedBefore(_, _)
(* the character at or before position j that is not case-ignorable is a
   cased one *)
CasedBefore(s, j) ==
    IF j < 1 THEN FALSE
    ELSE IF Ch(s, j) \in CaseIgnorable THEN CasedBefore(s, j - 1)
    ELSE Ch(s, j) \in CasedLetters

RECURSIVE CasedAfter(_, _)
(* the character at or after position j that is not case-ignorable is a
   cased one *)
CasedAfter(s, j) ==
    IF j > Len(s) THEN FALSE
    ELSE IF Ch(s, j) \in CaseIgnorable THEN CasedAfter(s, j + 1)
    ELSE Ch(s, j) \in CasedLetters

(* what str.lower() makes of the capital sigma at position i: the final
   sigma at the end of a word, after a cased letter and before none *)
LowerSigma(s, i) ==
    IF CasedBefore(s, i - 1) /\ ~CasedAfter(s, i + 1) THEN "ς" ELSE "σ"

RECURSIVE LowerFrom(_, _)
(* the characters of s.lower() from the one made of the i-th of s on *)
LowerFrom(s, i) ==
    IF i > Len(s) THEN <<>>
    ELSE <<IF Ch(s, i) = "Σ" THEN LowerSigma(s, i) ELSE LowerChar(Ch(s, i))>>
         \o LowerFrom(s, i + 1)

(* str.lower(): the sequence of the characters of the lower-cased text *)
lower(s) == LowerFrom(s, 1)

RECURSIVE FindFrom(_, _, _)
(* 1-based position of the first occurrence of sub in s at or after i, 0 if none *)
FindFrom(s, sub, i) ==
    IF i + Len(sub) - 1 > Len(s) THEN 0
    ELSE IF SubSeq(s, i, i + Len(sub) - 1) = sub THEN i
    ELSE FindFrom(s, sub, i + 1)

(* sub in s *)
Contains(s, sub) == FindFrom(s, sub, 1) # 0

RECURSIVE LStripFrom(_, _)
LStripFrom(s, i) ==
    IF i <= Len(s) /\ Ch(s, i) \in Whitespace THEN LStripFrom(s, i + 1) ELSE i

RECURSIVE RStripFrom(_, _)
RStripFrom(s, j) ==
    IF j >= 1 /\ Ch(s, j) \in Whitespace THEN RStripFrom(s, j - 1) ELSE j

StripBetween(s, i, j) == IF i > j THEN "" ELSE SubSeq(s, i, j)

(* str.strip() *)
strip(s) == StripBetween(s, LStripFrom(s, 1), RStripFrom(s, Len(s)))

RECURSIVE WordEnd(_, _)
WordEnd(s, i) ==
    IF i <= Len(s) /\ Ch(s, i) \notin Whitespace THEN WordEnd(s, i + 1) ELSE i

RECURSIVE SplitWsFrom(_, _)
SplitWsFrom(s, i) ==
    LET b == LStripFrom(s, i)
    IN  IF b > Len(s) THEN <<>>
        ELSE LET e == WordEnd(s, b)
             IN  <<SubSeq(s, b, e - 1)>> \o SplitWsFrom(s, e)

(* str.split() with no argument: the words between runs of whitespace *)
split_ws(s) == SplitWsFrom(s, 1)

RECURSIVE SplitSepFrom(_, _, _)
SplitSepFrom(s, sep, i) ==
    LET k == FindFrom(s, sep, i)
    IN  IF k = 0 THEN <<SubSeq(s, i, Len(s))>>
        ELSE <<SubSeq(s, i, k - 1)>> \o SplitSepFrom(s, sep, k + Len(sep))

(* str.split(sep) *)
split_sep(s, sep) == SplitSepFrom(s, sep, 1)

RECURSIVE join(_, _)
(* sep.join(parts) *)
join(sep, parts) ==
    IF Len(parts) = 0 THEN ""
    ELSE IF Len(parts) = 1 THEN parts[1]
    ELSE parts[1] \o sep \o join(sep, Tail(parts))

(* the decimal digit at position i of s, -1 when there is none *)
DigitAt(s, i) ==
    IF i <= Len(s) /\ Ch(s, i) \in DOMAIN DigitValue
        THEN DigitValue[Ch(s, i)] ELSE -1

RECURSIVE ToInt(_, _, _)
(* int(s) of a string of decimal digits after the first i of them, which
   stand for n; -1 when s holds another character *)
ToInt(s, i, n) ==
    IF i = Len(s) THEN n
    ELSE IF DigitAt(s, i + 1) = -1 THEN -1
    ELSE ToInt(s, i + 1, n * 10 + DigitAt(s, i + 1))

----------------------------------------------------------------------------
(* Dicts *)

EmptyDict == <<>>

(* dict d with key k set to v *)
SetKey(d, k, v) == (k :> v) @@ d

(* d.update(e) *)
Update(d, e) == e @@ d

(* d.get(k): an optional *)
Get(d, k) == IF k \in DOMAIN d THEN Some(d[k]) ELSE None

----------------------------------------------------------------------------
(* zoneinfo and datetime *)

(* the zone names of the IANA time-zone database (release 2025b) *)
ZoneKeys ==
    { "Africa/Abidjan", "Africa/Accra", "Africa/Addis_Ababa",
      "Africa/Algiers", "Africa/Asmara", "Africa/Asmera", "Africa/Bamako",
      "Africa/Bangui", "Africa/Banjul", "Africa/Bissau",
      "Africa/Blantyre", "Africa/Brazzaville", "Africa/Bujumbura",
      "Africa/Cairo", "Africa/Casablanca", "Africa/Ceuta",
      "Africa/Conakry", "Africa/Dakar", "Africa/Dar_es_Salaam",
      "Africa/Djibouti", "Africa/Douala", "Africa/El_Aaiun",
      "Africa/Freetown", "Africa/Gaborone", "Africa/Harare",
      "Africa/Johannesburg", "Africa/Juba", "Africa/Kampala",
      "Africa/Khartoum", "Africa/Kigali", "Africa/Kinshasa",
      "Africa/Lagos", "Africa/Libreville", "Africa/Lome", "Africa/Luanda",
      "Africa/Lubumbashi", "Africa/Lusaka", "Africa/Malabo",
      "Africa/Maputo", "Africa/Maseru", "Africa/Mbabane",
      "Africa/Mogadishu", "Africa/Monrovia", "Africa/Nairobi",
      "Africa/Ndjamena", "Africa/Niamey", "Africa/Nouakchott",
      "Africa/Ouagadougou", "Africa/Porto-Novo", "Africa/Sao_Tome",
      "Africa/Timbuktu", "Africa/Tripoli", "Africa/Tunis",
      "Africa/Windhoek", "America/Adak", "America/Anchorage",
      "America/Anguilla", "America/Antigua", "America/Araguaina",
      "America/Argentina/Buenos_Aires", "America/Argentina/Catamarca",
      "America/Argentina/ComodRivadavia", "America/Argentina/Cordoba",
      "America/Argentina/Jujuy", "America/Argentina/La_Rioja",
      "America/Argentina/Mendoza", "America/Argentina/Rio_Gallegos",
      "America/Argentina/Salta", "America/Argentina/San_Juan",
      "America/Argentina/San_Luis", "America/Argentina/Tucuman",
      "America/Argentina/Ushuaia", "America/Aruba", "America/Asuncion",
      "America/Atikokan", "America/Atka", "America/Bahia",
      "America/Bahia_Banderas", "America/Barbados", "America/Belem",
      "America/Belize", "America/Blanc-Sablon", "America/Boa_Vista",
      "America/Bogota", "America/Boise", "America/Buenos_Aires",
      "America/Cambridge_Bay", "America/Campo_Grande", "America/Cancun",
      "America/Caracas", "America/Catamarca", "America/Cayenne",
      "America/Cayman", "America/Chicago", "America/Chihuahua",
      "America/Ciudad_Juarez", "America/Coral_Harbour", "America/Cordoba",
      "America/Costa_Rica", "America/Coyhaique", "America/Creston",
      "America/Cuiaba", "America/Curacao", "America/Danmarkshavn",
      "America/Dawson", "America/Dawson_Creek", "America/Denver",
      "America/Detroit", "America/Dominica", "America/Edmonton",
      "America/Eirunepe", "America/El_Salvador", "America/Ensenada",
      "America/Fort_Nelson", "America/Fort_Wayne", "America/Fortaleza",
      "America/Glace_Bay", "America/Godthab", "America/Goose_Bay",
      "America/Grand_Turk", "America/Grenada", "America/Guadeloupe",
      "America/Guatemala", "America/Guayaquil", "America/Guyana",
      "America/Halifax", "America/Havana", "America/Hermosillo",
      "America/Indiana/Indianapolis", "America/Indiana/Knox",
      "America/Indiana/Marengo", "America/Indiana/Petersburg",
      "America/Indiana/Tell_City", "America/Indiana/Vevay",
      "America/Indiana/Vincennes", "America/Indiana/Winamac",
      "America/Indianapolis", "America/Inuvik", "America/Iqaluit",
      "America/Jamaica", "America/Jujuy", "America/Juneau",
      "America/Kentucky/Louisville", "America/Kentucky/Monticello",
      "America/Knox_IN", "America/Kralendijk", "America/La_Paz",
      "America/Lima", "America/Los_Angeles", "America/Louisville",
      "America/Lower_Princes", "America/Maceio", "America/Managua",
      "America/Manaus", "America/Marigot", "America/Martinique",
      "America/Matamoros", "America/Mazatlan", "America/Mendoza",
      "America/Menominee", "America/Merida", "America/Metlakatla",
      "America/Mexico_City", "America/Miquelon", "America/Moncton",
      "America/Monterrey", "America/Montevideo", "America/Montreal",
      "America/Montserrat", "America/Nassau", "America/New_York",
      "America/Nipigon", "America/Nome", "America/Noronha",
      "America/North_Dakota/Beulah", "America/North_Dakota/Center",
      "America/North_Dakota/New_Salem", "America/Nuuk", "America/Ojinaga",
      "America/Panama", "America/Pangnirtung", "America/Paramaribo",
      "America/Phoenix", "America/Port-au-Prince",
      "America/Port_of_Spain", "America/Porto_Acre",
      "America/Porto_Velho", "America/Puerto_Rico",
      "America/Punta_Arenas", "America/Rainy_River",
      "America/Rankin_Inlet", "America/Recife", "America/Regina",
      "America/Resolute", "America/Rio_Branco", "America/Rosario",
      "America/Santa_Isabel", "America/Santarem", "America/Santiago",
      "America/Santo_Domingo", "America/Sao_Paulo",
      "America/Scoresbysund", "America/Shiprock", "America/Sitka",
      "America/St_Barthelemy", "America/St_Johns", "America/St_Kitts",
      "America/St_Lucia", "America/St_Thomas", "America/St_Vincent",
      "America/Swift_Current", "America/Tegucigalpa", "America/Thule",
      "America/Thunder_Bay", "America/Tijuana", "America/Toronto",
      "America/Tortola", "America/Vancouver", "America/Virgin",
      "America/Whitehorse", "America/Winnipeg", "America/Yakutat",
      "America/Yellowknife", "Antarctica/Casey", "Antarctica/Davis",
      "Antarctica/DumontDUrville", "Antarctica/Macquarie",
      "Antarctica/Mawson", "Antarctica/McMurdo", "Antarctica/Palmer",
      "Antarctica/Rothera", "Antarctica/South_Pole", "Antarctica/Syowa",
      "Antarctica/Troll", "Antarctica/Vostok", "Arctic/Longyearbyen",
      "Asia/Aden", "Asia/Almaty", "Asia/Amman", "Asia/Anadyr",
      "Asia/Aqtau", "Asia/Aqtobe", "Asia/Ashgabat", "Asia/Ashkhabad",
      "Asia/Atyrau", "Asia/Baghdad", "Asia/Bahrain", "Asia/Baku",
      "Asia/Bangkok", "Asia/Barnaul", "Asia/Beirut", "Asia/Bishkek",
      "Asia/Brunei", "Asia/Calcutta", "Asia/Chita", "Asia/Choibalsan",
      "Asia/Chongqing", "Asia/Chungking", "Asia/Colombo", "Asia/Dacca",
      "Asia/Damascus", "Asia/Dhaka", "Asia/Dili", "Asia/Dubai",
      "Asia/Dushanbe", "Asia/Famagusta", "Asia/Gaza", "Asia/Harbin",
      "Asia/Hebron", "Asia/Ho_Chi_Minh", "Asia/Hong_Kong", "Asia/Hovd",
      "Asia/Irkutsk", "Asia/Istanbul", "Asia/Jakarta", "Asia/Jayapura",
      "Asia/Jerusalem", "Asia/Kabul", "Asia/Kamchatka", "Asia/Karachi",
      "Asia/Kashgar", "Asia/Kathmandu", "Asia/Katmandu", "Asia/Khandyga",
      "Asia/Kolkata", "Asia/Krasnoyarsk", "Asia/Kuala_Lumpur",
      "Asia/Kuching", "Asia/Kuwait", "Asia/Macao", "Asia/Macau",
      "Asia/Magadan", "Asia/Makassar", "Asia/Manila", "Asia/Muscat",
      "Asia/Nicosia", "Asia/Novokuznetsk", "Asia/Novosibirsk",
      "Asia/Omsk", "Asia/Oral", "Asia/Phnom_Penh", "Asia/Pontianak",
      "Asia/Pyongyang", "Asia/Qatar", "Asia/Qostanay", "Asia/Qyzylorda",
      "Asia/Rangoon", "Asia/Riyadh", "Asia/Saigon", "Asia/Sakhalin",
      "Asia/Samarkand", "Asia/Seoul", "Asia/Shanghai", "Asia/Singapore",
      "Asia/Srednekolymsk", "Asia/Taipei", "Asia/Tashkent",
      "Asia/Tbilisi", "Asia/Tehran", "Asia/Tel_Aviv", "Asia/Thimbu",
      "Asia/Thimphu", "Asia/Tokyo", "Asia/Tomsk", "Asia/Ujung_Pandang",
      "Asia/Ulaanbaatar", "Asia/Ulan_Bator", "Asia/Urumqi",
      "Asia/Ust-Nera", "Asia/Vientiane", "Asia/Vladivostok",
      "Asia/Yakutsk", "Asia/Yangon", "Asia/Yekaterinburg", "Asia/Yerevan",
      "Atlantic/Azores", "Atlantic/Bermuda", "Atlantic/Canary",
      "Atlantic/Cape_Verde", "Atlantic/Faeroe", "Atlantic/Faroe",
      "Atlantic/Jan_Mayen", "Atlantic/Madeira", "Atlantic/Reykjavik",
      "Atlantic/South_Georgia", "Atlantic/St_Helena", "Atlantic/Stanley",
      "Australia/ACT", "Australia/Adelaide", "Australia/Brisbane",
      "Australia/Broken_Hill", "Australia/Canberra", "Australia/Currie",
      "Australia/Darwin", "Australia/Eucla", "Australia/Hobart",
      "Australia/LHI", "Australia/Lindeman", "Australia/Lord_Howe",
      "Australia/Melbourne", "Australia/NSW", "Australia/North",
      "Australia/Perth", "Australia/Queensland", "Australia/South",
      "Australia/Sydney", "Australia/Tasmania", "Australia/Victoria",
      "Australia/West", "Australia/Yancowinna", "Brazil/Acre",
      "Brazil/DeNoronha", "Brazil/East", "Brazil/West", "CET", "CST6CDT",
      "Canada/Atlantic", "Canada/Central", "Canada/Eastern",
      "Canada/Mountain", "Canada/Newfoundland", "Canada/Pacific",
      "Canada/Saskatchewan", "Canada/Yukon", "Chile/Continental",
      "Chile/EasterIsland", "Cuba", "EET", "EST", "EST5EDT", "Egypt",
      "Eire", "Etc/GMT", "Etc/GMT+0", "Etc/GMT+1", "Etc/GMT+10",
      "Etc/GMT+11", "Etc/GMT+12", "Etc/GMT+2", "Etc/GMT+3", "Etc/GMT+4",
      "Etc/GMT+5", "Etc/GMT+6", "Etc/GMT+7", "Etc/GMT+8", "Etc/GMT+9",
      "Etc/GMT-0", "Etc/GMT-1", "Etc/GMT-10", "Etc/GMT-11", "Etc/GMT-12",
      "Etc/GMT-13", "Etc/GMT-14", "Etc/GMT-2", "Etc/GMT-3", "Etc/GMT-4",
      "Etc/GMT-5", "Etc/GMT-6", "Etc/GMT-7", "Etc/GMT-8", "Etc/GMT-9",
      "Etc/GMT0", "Etc/Greenwich", "Etc/UCT", "Etc/UTC", "Etc/Universal",
      "Etc/Zulu", "Europe/Amsterdam", "Europe/Andorra",
      "Europe/Astrakhan", "Europe/Athens", "Europe/Belfast",
      "Europe/Belgrade", "Europe/Berlin", "Europe/Bratislava",
      "Europe/Brussels", "Europe/Bucharest", "Europe/Budapest",
      "Europe/Busingen", "Europe/Chisinau", "Europe/Copenhagen",
      "Europe/Dublin", "Europe/Gibraltar", "Europe/Guernsey",
      "Europe/Helsinki", "Europe/Isle_of_Man", "Europe/Istanbul",
      "Europe/Jersey", "Europe/Kaliningrad", "Europe/Kiev",
      "Europe/Kirov", "Europe/Kyiv", "Europe/Lisbon", "Europe/Ljubljana",
      "Europe/London", "Europe/Luxembourg", "Europe/Madrid",
      "Europe/Malta", "Europe/Mariehamn", "Europe/Minsk", "Europe/Monaco",
      "Europe/Moscow", "Europe/Nicosia", "Europe/Oslo", "Europe/Paris",
      "Europe/Podgorica", "Europe/Prague", "Europe/Riga", "Europe/Rome",
      "Europe/Samara", "Europe/San_Marino", "Europe/Sarajevo",
      "Europe/Saratov", "Europe/Simferopol", "Europe/Skopje",
      "Europe/Sofia", "Europe/Stockholm", "Europe/Tallinn",
      "Europe/Tirane", "Europe/Tiraspol", "Europe/Ulyanovsk",
      "Europe/Uzhgorod", "Europe/Vaduz", "Europe/Vatican",
      "Europe/Vienna", "Europe/Vilnius", "Europe/Volgograd",
      "Europe/Warsaw", "Europe/Zagreb", "Europe/Zaporozhye",
      "Europe/Zurich", "Factory", "GB", "GB-Eire", "GMT", "GMT+0",
      "GMT-0", "GMT0", "Greenwich", "HST", "Hongkong", "Iceland",
      "Indian/Antananarivo", "Indian/Chagos", "Indian/Christmas",
      "Indian/Cocos", "Indian/Comoro", "Indian/Kerguelen", "Indian/Mahe",
      "Indian/Maldives", "Indian/Mauritius", "Indian/Mayotte",
      "Indian/Reunion", "Iran", "Israel", "Jamaica", "Japan", "Kwajalein",
      "Libya", "MET", "MST", "MST7MDT", "Mexico/BajaNorte",
      "Mexico/BajaSur", "Mexico/General", "NZ", "NZ-CHAT", "Navajo",
      "PRC", "PST8PDT", "Pacific/Apia", "Pacific/Auckland",
      "Pacific/Bougainville", "Pacific/Chatham", "Pacific/Chuuk",
      "Pacific/Easter", "Pacific/Efate", "Pacific/Enderbury",
      "Pacific/Fakaofo", "Pacific/Fiji", "Pacific/Funafuti",
      "Pacific/Galapagos", "Pacific/Gambier", "Pacific/Guadalcanal",
      "Pacific/Guam", "Pacific/Honolulu", "Pacific/Johnston",
      "Pacific/Kanton", "Pacific/Kiritimati", "Pacific/Kosrae",
      "Pacific/Kwajalein", "Pacific/Majuro", "Pacific/Marquesas",
      "Pacific/Midway", "Pacific/Nauru", "Pacific/Niue",
      "Pacific/Norfolk", "Pacific/Noumea", "Pacific/Pago_Pago",
      "Pacific/Palau", "Pacific/Pitcairn", "Pacific/Pohnpei",
      "Pacific/Ponape", "Pacific/Port_Moresby", "Pacific/Rarotonga",
      "Pacific/Saipan", "Pacific/Samoa", "Pacific/Tahiti",
      "Pacific/Tarawa", "Pacific/Tongatapu", "Pacific/Truk",
      "Pacific/Wake", "Pacific/Wallis", "Pacific/Yap", "Poland",
      "Portugal", "ROC", "ROK", "Singapore", "Turkey", "UCT", "US/Alaska",
      "US/Aleutian", "US/Arizona", "US/Central", "US/East-Indiana",
      "US/Eastern", "US/Hawaii", "US/Indiana-Starke", "US/Michigan",
      "US/Mountain", "US/Pacific", "US/Samoa", "UTC", "Universal", "W-SU",
      "WET", "Zulu" }

(* the names ZoneInfo resolves, which are the files below the directories
   of zoneinfo.TZPATH: every zone, under its name and below posix/ and
   right/, and the files localtime and posixrules. ZoneInfo raises on any
   other name. *)
ValidZones ==
    ZoneKeys \cup {"localtime", "posixrules"}
        \cup {"posix/" \o z : z \in ZoneKeys}
        \cup {"right/" \o z : z \in ZoneKeys}

(* the try/except around ZoneInfo(TIMEZONE): the configured zone, or
   Europe/London when its name does not resolve *)
ResolveZone(name) == IF name \in ValidZones THEN name ELSE "Europe/London"

MonthNames ==
    <<"january", "february", "march", "april", "may", "june", "july",
      "august", "september", "october", "november", "december">>

RECURSIVE SeqIndex(_, _, _)
(* 1-based position of x in seq from i on, 0 if none *)
SeqIndex(seq, x, i) ==
    IF i > Len(seq) THEN 0
    ELSE IF seq[i] = x THEN i
    ELSE SeqIndex(seq, x, i + 1)

IsLeap(y) == y % 4 = 0 /\ (y % 100 # 0 \/ y % 400 = 0)

DaysInMonth(y, m) ==
    IF m = 2 THEN (IF IsLeap(y) THEN 29 ELSE 28)
    ELSE IF m \in {4, 6, 9, 11} THEN 30 ELSE 31

RECURSIVE DaysBeforeMonth(_, _)
DaysBeforeMonth(y, m) ==
    IF m = 1 THEN 0 ELSE DaysBeforeMonth(y, m - 1) + DaysInMonth(y, m - 1)

DaysBeforeYear(y) ==
    (y - 1) * 365 + ((y - 1) \div 4) - ((y - 1) \div 100) + ((y - 1) \div 400)

(* date.toordinal() *)
ymd2ord(y, m, d) == DaysBeforeYear(y) + DaysBeforeMonth(y, m) + d

SecondsPerMinute == 60

SecondsPerDay == 86400

(* wall-clock seconds since 2000-01-01 00:00 of y-m-d hh:00:00 *)
WallSeconds(y, m, d, hh) ==
    (ymd2ord(y, m, d) - ymd2ord(2000, 1, 1)) * SecondsPerDay
        + hh * 60 * SecondsPerMinute

NonZeroDigits == {"1", "2", "3", "4", "5", "6", "7", "8", "9"}

(* the day of the token t under strptime's %d, the pattern
   3[0-1]|[1-2]\d|0[1-9]|[1-9] matched against the whole token: -1 when it
   does not match. The digits the pattern names are the ASCII ones; \d is
   any decimal digit. *)
DayOf(t) ==
    IF t \in NonZeroDigits THEN DigitValue[t]
    ELSE IF Len(t) # 2 THEN -1
    ELSE IF Ch(t, 1) = "3"
        THEN (IF Ch(t, 2) \in {"0", "1"} THEN 30 + DigitValue[Ch(t, 2)]
              ELSE -1)
    ELSE IF Ch(t, 1) \in {"1", "2"}
        THEN (IF DigitAt(t, 2) = -1 THEN -1
              ELSE DigitValue[Ch(t, 1)] * 10 + DigitAt(t, 2))
    ELSE IF Ch(t, 1) = "0" /\ Ch(t, 2) \in NonZeroDigits
        THEN DigitValue[Ch(t, 2)]
    ELSE -1

(* the day of the token t behind one leading space, the alternative
   " [1-9]" of %d *)
DayBehindSpace(t) == IF t \in NonZeroDigits THEN DigitValue[t] ELSE -1

(* the month of the token t under %B, a full month name in any letter case:
   0 when it is none *)
MonthOf(t) ==
    SeqIndex([m \in 1..Len(MonthNames) |-> CharSeq(MonthNames[m])], lower(t), 1)

(* the year of the token t under %Y, four decimal digits: -1 when it is
   none *)
YearOf(t) == IF Len(t) # 4 THEN -1 ELSE ToInt(t, 0, 0)

(* the date construction at the end of strptime: the calendar date must
   exist *)
CheckedDate(y, m, d) ==
    IF y < 1 \/ d > DaysInMonth(y, m) THEN None ELSE Some(<<y, m, d>>)

(* the three tokens of the string, the day being known *)
StrptimeTokens(toks, day) ==
    IF Len(toks) # 3 THEN None
    ELSE IF day = -1 \/ MonthOf(toks[2]) = 0 \/ YearOf(toks[3]) = -1
        THEN None
    ELSE CheckedDate(YearOf(toks[3]), MonthOf(toks[2]), day)

(* datetime.strptime(date_part, "%d %B %Y"): an optional <<y, m, d>>; None
   stands for the ValueError. The blanks of the format match runs of
   whitespace, so the string is its three tokens; whitespace may not
   follow the year, and before the day only one space may stand, then
   followed by a single digit. *)
strptime_dBY(date_part) ==
    IF date_part = "" THEN None
    ELSE IF Ch(date_part, Len(date_part)) \in Whitespace THEN None
    ELSE IF Ch(date_part, 1) \notin Whitespace
        THEN StrptimeTokens(split_ws(date_part),
                            DayOf(split_ws(date_part)[1]))
    ELSE IF Ch(date_part, 1) = " " /\ Ch(date_part, 2) \notin Whitespace
        THEN StrptimeTokens(split_ws(date_part),
                            DayBehindSpace(split_ws(date_part)[1]))
    ELSE None

CollectionHour == 7

AfterComma(s, k) == IF k = 0 THEN s ELSE SubSeq(s, k + 1, Len(s))

(* AfterFirstComma with the text before the comma kept *)
WholeText(s) == s

(* date_str.split(',', 1)[-1] *)
AfterFirstComma(s) == AfterComma(s, IndexOf(s, ",", 1))

(* dt.replace(hour=7, minute=0, second=0, microsecond=0).replace(tzinfo=tz)
   of the parsed date ymd, an optional <<y, m, d>> *)
AtCollectionHour(ymd) ==
    IF IsNone(ymd) THEN None
    ELSE Some([wall |-> WallSeconds(Val(ymd)[1], Val(ymd)[2], Val(ymd)[3],
                                    CollectionHour),
               tz |-> ResolveZone(TIMEZONE)])

(* parse_collection_date(date_str): date_str is an optional str; the result
   is an optional datetime [wall, tz] *)
parse_collection_date(date_str) ==
    IF IsNone(date_str) \/ Val(date_str) = "" THEN None
    ELSE AtCollectionHour(strptime_dBY(strip(AfterFirstComma(Val(date_str)))))

----------------------------------------------------------------------------
(* Classification *)

(* the rules of get_waste_group on the lower-cased type l *)
WasteGroupRules(l) ==
    IF Contains(l, CharSeq("black")) /\ Contains(l, CharSeq("rubbish"))
        THEN Some(<<"General Rubbish (black bin)">>)
    ELSE IF Contains(l, CharSeq("blue"))
            /\ (Contains(l, CharSeq("cardboard")) \/ Contains(l, CharSeq("bag")))
        THEN Some(<<"Cardboard (blue bag/box)">>)
    ELSE IF Contains(l, CharSeq("food")) \/ Contains(l, CharSeq("caddy"))
        THEN Some(<<"Food Waste (caddy)">>)
    ELSE IF Contains(l, CharSeq("green")) /\ Contains(l, CharSeq("recycling"))
        THEN Some(<<"Plastics & Metals (green box)",
                    "Glass & Paper (green box)">>)
    ELSE IF Contains(l, CharSeq("garden")) /\ Contains(l, CharSeq("waste"))
        THEN Some(<<"Garden Waste (garden bin subscription)">>)
    ELSE None

(* get_waste_group(collection_type): collection_type is an optional str. The
   result is an optional sequence of group names; the plain str the function
   returns for a single group is the one-element sequence. *)
get_waste_group(collection_type) ==
    IF IsNone(collection_type) \/ Val(collection_type) = "" THEN None
    ELSE WasteGroupRules(lower(Val(collection_type)))

(* the rules of get_bin_type_column_prefix on the lower-cased type l *)
ColumnPrefixRules(l) ==
    IF Contains(l, CharSeq("black")) /\ Contains(l, CharSeq("rubbish"))
        THEN Some("black_rubbish_140l")
    ELSE IF Contains(l, CharSeq("blue"))
            /\ (Contains(l, CharSeq("cardboard")) \/ Contains(l, CharSeq("bag")))
        THEN Some("blue_cardboard_bag")
    ELSE IF Contains(l, CharSeq("food")) \/ Contains(l, CharSeq("caddy"))
        THEN Some("black_food_waste")
    ELSE IF Contains(l, CharSeq("garden")) /\ Contains(l, CharSeq("waste"))
        THEN Some("green_garden_bin")
    ELSE IF Contains(l, CharSeq("green")) /\ Contains(l, CharSeq("recycling"))
        THEN Some("green_recycling_box")
    ELSE None

(* get_bin_type_column_prefix(collection_type): an optional column prefix *)
get_bin_type_column_prefix(collection_type) ==
    IF IsNone(collection_type) \/ Val(collection_type) = "" THEN None
    ELSE ColumnPrefixRules(lower(Val(collection_type)))

WeekdayNames ==
    {"Monday", "Tuesday", "Wednesday", "Thursday", "Friday", "Saturday",
     "Sunday"}

(* is_date(val): val is an optional str *)
is_date(val) ==
    IF IsNone(val) \/ Val(val) = "" THEN FALSE
    ELSE \E day \in WeekdayNames : Contains(Val(val), day)

----------------------------------------------------------------------------
(* Time differences *)

Plural(n, unit) ==
    IF n = 1 THEN "1 " \o unit ELSE ToString(n) \o " " \o unit \o "s"

(* JoinParts with every part joined by a comma *)
JoinPartsCommaOnly(parts) ==
    IF Len(parts) = 0 THEN "Less than 1 minute" ELSE join(", ", parts)

(* the conjunctions of format_time_until_next *)
JoinParts(parts) ==
    IF Len(parts) = 0 THEN "Less than 1 minute"
    ELSE IF Len(parts) = 1 THEN parts[1]
    ELSE IF Len(parts) = 2 THEN parts[1] \o " and " \o parts[2]
    ELSE join(", ", SubSeq(parts, 1, Len(parts) - 1))
             \o " and " \o parts[Len(parts)]

(* the parts list of format_time_until_next *)
DurationParts(days, hours, remaining_minutes) ==
    (IF days > 0 THEN <<Plural(days, "day")>> ELSE <<>>)
    \o (IF hours > 0 THEN <<Plural(hours, "hour")>> ELSE <<>>)
    \o (IF remaining_minutes > 0
            THEN <<Plural(remaining_minutes, "minute")>> ELSE <<>>)

(* format_time_until_next(days, minutes) *)
format_time_until_next(days, minutes) ==
    IF minutes < 0 THEN "Collection time has passed"
    ELSE JoinParts(DurationParts(
             days,
             IF days > 0 THEN (minutes \div 60) - days * 24
                         ELSE minutes \div 60,
             minutes % 60))

(* UntilNext with the minutes rounded up instead of down *)
UntilNextRoundedUp(delta) ==
    [days_until_next |-> delta \div SecondsPerDay,
     minutes_until_next |-> (delta + SecondsPerMinute - 1) \div SecondsPerMinute,
     time_until_next_text |->
         format_time_until_next(
             delta \div SecondsPerDay,
             (delta + SecondsPerMinute - 1) \div SecondsPerMinute)]

(* the fields of a next collection delta seconds ahead *)
UntilNext(delta) ==
    [days_until_next |-> delta \div SecondsPerDay,
     minutes_until_next |-> delta \div SecondsPerMinute,
     time_until_next_text |->
         format_time_until_next(delta \div SecondsPerDay,
                                delta \div SecondsPerMinute)]

(* NextFields without the branch for a collection time in the past *)
NextFieldsUnclamped(next_dt, now) ==
    IF IsNone(next_dt) THEN EmptyDict
    ELSE UntilNext(Val(next_dt).wall - now.wall)

(* the branch of calculate_time_differences on next_dt, an optional
   datetime *)
NextFields(next_dt, now) ==
    IF IsNone(next_dt) THEN EmptyDict
    ELSE IF Val(next_dt).wall >= now.wall
        THEN UntilNext(Val(next_dt).wall - now.wall)
    ELSE [days_until_next |-> 0,
          minutes_until_next |-> 0,
          time_until_next_text |-> "Collection time has passed"]

(* the next-collection half of calculate_time_differences *)
NextDiffs(next_collection_str, now) ==
    IF IsNone(next_collection_str) \/ Val(next_collection_str) = ""
        THEN EmptyDict
        ELSE NextFields(parse_collection_date(next_collection_str), now)

(* the fields of a last collection delta seconds ago *)
SinceLast(delta) ==
    [days_since_last |-> delta \div SecondsPerDay,
     minutes_since_last |-> delta \div SecondsPerMinute]

(* LastFields without the branch for a collection time in the future *)
LastFieldsUnclamped(last_dt, now) ==
    IF IsNone(last_dt) THEN EmptyDict
    ELSE SinceLast(now.wall - Val(last_dt).wall)

(* the branch of calculate_time_differences on last_dt, an optional
   datetime *)
LastFields(last_dt, now) ==
    IF IsNone(last_dt) THEN EmptyDict
    ELSE IF Val(last_dt).wall <= now.wall
        THEN SinceLast(now.wall - Val(last_dt).wall)
    ELSE [days_since_last |-> 0, minutes_since_last |-> 0]

(* the last-collection half of calculate_time_differences *)
LastDiffs(last_collection_str, now) ==
    IF IsNone(last_collection_str) \/ Val(last_collection_str) = ""
        THEN EmptyDict
        ELSE LastFields(parse_collection_date(last_collection_str), now)

(* datetime.now(tz) with the zone resolved as in the callers: the reading t
   of the wall clock of that zone *)
Now(t) == [wall |-> t, tz |-> ResolveZone(TIMEZONE)]

(* calculate_time_differences(next_collection_str, last_collection_str);
   now is the value its datetime.now(tz) call returns *)
calculate_time_differences(next_collection_str, last_collection_str, now) ==
    Update(NextDiffs(next_collection_str, now),
           LastDiffs(last_collection_str, now))

----------------------------------------------------------------------------
(* The results page *)

(* A document, as BeautifulSoup presents it to parse_collection_table:
     html      [table: optional table]
     table     [thead: optional sequence of th texts,
                tbody: optional sequence of rows]         (the first <table>)
     row       [th: optional sequence of text nodes,      (the first <th>)
                tds: sequence of td texts]
   The text nodes of a row header are the strings between its line breaks. *)

RECURSIVE StrippedNonEmpty(_)
(* the stripped strings of a tag, empty ones dropped (get_text's strip=True) *)
StrippedNonEmpty(nodes) ==
    IF Len(nodes) = 0 THEN <<>>
    ELSE LET t == strip(Head(nodes))
         IN  (IF t = "" THEN <<>> ELSE <<t>>) \o StrippedNonEmpty(Tail(nodes))

(* tag.get_text(separator=sep, strip=True) *)
get_text(nodes, sep) == join(sep, StrippedNonEmpty(nodes))

(* one turn of the loop over enumerate(headers) *)
HeaderStep(idx, i, header) ==
    IF Contains(header, "Next collection")
        THEN [idx EXCEPT !.next_col_idx = Some(i)]
    ELSE IF Contains(header, "Last collection")
        THEN [idx EXCEPT !.last_col_idx = Some(i)]
    ELSE IF Contains(header, "Collection") /\ header # ""
        THEN [idx EXCEPT !.collection_type_idx = Some(i)]
    ELSE idx

RECURSIVE HeaderIndices(_, _, _)
(* the loop over enumerate(headers): idx holds next_col_idx, last_col_idx and
   collection_type_idx, each an optional 0-based position *)
HeaderIndices(headers, i, idx) ==
    IF i >= Len(headers) THEN idx
    ELSE HeaderIndices(headers, i + 1, HeaderStep(idx, i, At0(headers, i)))

NoIndices ==
    [next_col_idx |-> None, last_col_idx |-> None, collection_type_idx |-> None]

(* headers: the texts of the th cells of the thead, [] without a thead *)
Headers(table) ==
    IF IsNone(table.thead) THEN <<>>
    ELSE [i \in 1..Len(Val(table.thead)) |->
             get_text(<<Val(table.thead)[i]>>, "")]

(* the column indices found in the headers *)
ColumnIndices(table) == HeaderIndices(Headers(table), 0, NoIndices)

(* the truth test on an optional str: neither None nor "" *)
Truthy(o) == ~IsNone(o) /\ Val(o) # ""

(* values[i] if values[i] else None *)
CellOrNone(v) == IF v # "" THEN Some(v) ELSE None

(* a cell taken as the collection type: non-empty and not date-looking *)
TypeCell(val) == IF Truthy(val) /\ ~is_date(val) THEN val ELSE None

(* ' '.join(collection_type.split()) when collection_type is truthy *)
CollapseSpaces(collection_type) ==
    IF Truthy(collection_type)
        THEN Some(join(" ", split_ws(Val(collection_type))))
        ELSE collection_type

(* InRow with the position one past the last cell let through *)
InRowUpTo(col_idx, values) == ~IsNone(col_idx) /\ Val(col_idx) <= Len(values)

(* col_idx is not None and col_idx < len(values) *)
InRow(col_idx, values) == ~IsNone(col_idx) /\ Val(col_idx) < Len(values)

(* the if/elif/elif that picks the collection type of a row *)
PickCollectionType(row, values, idx) ==
    IF ~IsNone(row.th)
        THEN Some(get_text(Val(row.th), " | "))
    ELSE IF InRow(idx.collection_type_idx, values)
        THEN TypeCell(CellOrNone(At0(values, Val(idx.collection_type_idx))))
    ELSE IF Len(values) > 0
        THEN (IF At0(values, 0) # "" /\ ~is_date(Some(At0(values, 0)))
                  THEN Some(At0(values, 0))
                  ELSE None)
    ELSE None

(* the collection type of one row, before the split: an optional str *)
RowCollectionType(row, values, idx) ==
    CollapseSpaces(PickCollectionType(row, values, idx))

RECURSIVE DateValues(_)
(* date_values: the date-looking values of the row, in order *)
DateValues(values) ==
    IF Len(values) = 0 THEN <<>>
    ELSE (IF Head(values) # "" /\ is_date(Some(Head(values)))
              THEN <<Head(values)>> ELSE <<>>)
         \o DateValues(Tail(values))

(* a cell taken as a date: non-empty and date-looking *)
DateCell(val) == IF Truthy(val) /\ is_date(val) THEN val ELSE None

(* the value at a header-mapped column when it looks like a date *)
MappedDate(values, col_idx) ==
    IF InRow(col_idx, values)
        THEN DateCell(CellOrNone(At0(values, Val(col_idx))))
        ELSE None

(* OrPositional with the header-mapped value never used *)
OrPositionalOnly(mapped, date_values, k) ==
    IF Len(date_values) >= k THEN Some(date_values[k]) ELSE None

(* the positional fallback: the k-th date-looking value when the mapped
   column gave none *)
OrPositional(mapped, date_values, k) ==
    IF ~Truthy(mapped) /\ Len(date_values) >= k
        THEN Some(date_values[k])
        ELSE mapped

(* next_collection of the row: an optional str *)
RowNextCollection(values, idx) ==
    OrPositional(MappedDate(values, idx.next_col_idx), DateValues(values), 1)

(* last_collection of the row: an optional str *)
RowLastCollection(values, idx) ==
    OrPositional(MappedDate(values, idx.last_col_idx), DateValues(values), 2)

(* item[key] = value when the optional value is truthy *)
SetIfTruthy(item, key, value) ==
    IF Truthy(value) THEN SetKey(item, key, Val(value)) ELSE item

(* the keys both branches put in an item after the collection type *)
WithDates(item, next_collection, last_collection) ==
    SetIfTruthy(SetIfTruthy(item, "next_collection", next_collection),
                "last_collection", last_collection)

(* item["waste_group"] = waste_group when there is one *)
WithWasteGroup(item, waste_group) ==
    IF ~IsNone(waste_group)
        THEN SetKey(item, "waste_group", Val(waste_group))
        ELSE item

(* {"collection_type": t} with its waste group when there is one *)
TypedItem(t) ==
    WithWasteGroup(SetKey(EmptyDict, "collection_type", t),
                   get_waste_group(Some(t)))

(* the item of one individual type; now is what its
   calculate_time_differences call reads from the clock *)
SplitItem(individual_type, next_collection, last_collection, now) ==
    Update(WithDates(TypedItem(individual_type),
                     next_collection, last_collection),
           calculate_time_differences(next_collection, last_collection, now))

(* [items, calls]: the items appended and the number of calls of
   calculate_time_differences made so far; nows[calls + 1] is the clock
   reading of the next call *)
Prepend(item, rest) == [items |-> <<item>> \o rest.items, calls |-> rest.calls]

RECURSIVE SplitItems(_, _, _, _, _)
RECURSIVE SplitStep(_, _, _, _, _, _)
(* one turn of the loop over individual_types *)
SplitStep(individual_type, types, next_collection, last_collection, nows, calls) ==
    IF individual_type = ""
        THEN SplitItems(types, next_collection, last_collection, nows, calls)
        ELSE Prepend(SplitItem(individual_type, next_collection,
                               last_collection, Now(nows[calls + 1])),
                     SplitItems(types, next_collection, last_collection,
                                nows, calls + 1))

(* the loop over individual_types, each ct.strip() of a part of the split *)
SplitItems(types, next_collection, last_collection, nows, calls) ==
    IF Len(types) = 0 THEN [items |-> <<>>, calls |-> calls]
    ELSE SplitStep(strip(Head(types)), Tail(types), next_collection,
                   last_collection, nows, calls)

(* AppendIfAny keeping only an item that holds a date or a waste group *)
AppendIfDated(collection_item, calls) ==
    [items |-> IF DOMAIN collection_item
                      \cap {"next_collection", "last_collection", "waste_group"}
                      # {}
                   THEN <<collection_item>>
                   ELSE <<>>,
     calls |-> calls]

(* collections.append(collection_item) if collection_item *)
AppendIfAny(collection_item, calls) ==
    [items |-> IF DOMAIN collection_item # {} THEN <<collection_item>>
               ELSE <<>>,
     calls |-> calls]

(* the else branch: the single collection_item of the row *)
SingleItem(collection_type, next_collection, last_collection, now) ==
    Update(WithDates(IF Truthy(collection_type)
                         THEN TypedItem(Val(collection_type))
                         ELSE EmptyDict,
                     next_collection, last_collection),
           calculate_time_differences(next_collection, last_collection, now))

(* the split-or-single branch of the loop body *)
BranchItems(collection_type, next_collection, last_collection, nows, calls) ==
    IF Truthy(collection_type) /\ Contains(Val(collection_type), " | ")
        THEN SplitItems(split_sep(Val(collection_type), " | "),
                        next_collection, last_collection, nows, calls)
        ELSE AppendIfAny(SingleItem(collection_type, next_collection,
                                    last_collection, Now(nows[calls + 1])),
                         calls + 1)

(* values: the stripped texts of the td cells of a row *)
RowValues(row) == [i \in 1..Len(row.tds) |-> get_text(<<row.tds[i]>>, "")]

RowItemsOf(row, values, idx, nows, calls) ==
    BranchItems(RowCollectionType(row, values, idx),
                RowNextCollection(values, idx),
                RowLastCollection(values, idx), nows, calls)

(* the body of the loop over the rows: the items the row appends *)
RowItems(row, idx, nows, calls) ==
    RowItemsOf(row, RowValues(row), idx, nows, calls)

AppendItems(items, rest) == [items |-> items \o rest.items, calls |-> rest.calls]

RECURSIVE RowsItems(_, _, _, _)
RECURSIVE RowsAfter(_, _, _, _)
RowsAfter(first, rows, idx, nows) ==
    AppendItems(first.items, RowsItems(rows, idx, nows, first.calls))

(* the loop over rows.find_all('tr') *)
RowsItems(rows, idx, nows, calls) ==
    IF Len(rows) = 0 THEN [items |-> <<>>, calls |-> calls]
    ELSE RowsAfter(RowItems(Head(rows), idx, nows, calls), Tail(rows), idx, nows)

(* parse_collection_table(html) when its calls of datetime.now return
   nows[1], nows[2], ... in this order: [items, calls], the list returned and
   the number of clock readings taken *)
ParseRun(doc, nows) ==
    IF IsNone(doc.table) THEN [items |-> <<>>, calls |-> 0]
    ELSE IF IsNone(Val(doc.table).tbody) THEN [items |-> <<>>, calls |-> 0]
    ELSE RowsItems(Val(Val(doc.table).tbody), ColumnIndices(Val(doc.table)),
                   nows, 0)

parse_collection_table(doc, nows) == ParseRun(doc, nows).items

----------------------------------------------------------------------------
(* Persistence *)

(* the bin-type column prefixes of the collections table, in the order of the
   loop that builds the INSERT *)
ColumnPrefixes ==
    <<"black_rubbish_140l", "blue_cardboard_bag", "black_food_waste",
      "green_garden_bin", "green_recycling_box">>

LastCol(column_prefix) == column_prefix \o "_last_collection"

NextCol(column_prefix) == column_prefix \o "_next_collection"

BinColumns ==
    {LastCol(ColumnPrefixes[i]) : i \in 1..Len(ColumnPrefixes)}
        \cup {NextCol(ColumnPrefixes[i]) : i \in 1..Len(ColumnPrefixes)}

NotADate == {CharSeq("unknown"), CharSeq("n/a"), CharSeq("")}

(* the datetime stored for one date string of a record: an optional datetime *)
StoredDate(collection_str) ==
    IF Truthy(collection_str) /\ lower(Val(collection_str)) \notin NotADate
        THEN parse_collection_date(collection_str)
        ELSE None

(* update_fields after the two assignments for one recognized record *)
WithRecord(update_fields, collection, column_prefix) ==
    SetKey(SetKey(update_fields, LastCol(column_prefix),
                  StoredDate(Get(collection, "last_collection"))),
           NextCol(column_prefix),
           StoredDate(Get(collection, "next_collection")))

(* one turn of the loop over collections_data; column_prefix is the
   optional prefix of the record's type *)
FieldsStep(update_fields, collection, column_prefix) ==
    IF ~Truthy(Get(collection, "collection_type")) \/ ~Truthy(column_prefix)
        THEN update_fields
        ELSE WithRecord(update_fields, collection, Val(column_prefix))

RECURSIVE UpdateFields(_, _)
(* the loop over collections_data building update_fields: a dict from column
   names to optional datetimes *)
UpdateFields(collections_data, update_fields) ==
    IF Len(collections_data) = 0 THEN update_fields
    ELSE UpdateFields(
             Tail(collections_data),
             FieldsStep(update_fields, Head(collections_data),
                        get_bin_type_column_prefix(
                            Get(Head(collections_data), "collection_type"))))

(* the VALUES of the INSERT: every bin column from update_fields, NULL (None)
   for a column it does not hold *)
InsertedRow(update_fields, site_last_checked) ==
    [c \in BinColumns \cup {"site_last_checked"} |->
        IF c = "site_last_checked" THEN Some(site_last_checked)
        ELSE IF c \in DOMAIN update_fields THEN update_fields[c]
        ELSE None]

(* Upsert that keeps the stored value of a column the new row leaves NULL *)
UpsertCoalesce(table, address, row) ==
    (address :>
        [c \in DOMAIN row |->
            IF row[c] = None /\ address \in DOMAIN table
                THEN table[address][c] ELSE row[c]])
    @@ table

(* INSERT ... ON CONFLICT (address) DO UPDATE SET every column to the
   inserted value: the table after the statement *)
Upsert(table, address, row) == (address :> row) @@ table

(* store_collections(conn, address, postcode, collections_data): the
   collections table afterwards; t is the reading of datetime.now *)
store_collections(table, address, collections_data, t) ==
    Upsert(table, address,
           InsertedRow(UpdateFields(collections_data, EmptyDict), Now(t)))

----------------------------------------------------------------------------
(* Inputs *)

D10 == "Monday, 10 November 2025"

D17 == "Monday, 17 November 2025"

D24 == "Monday, 24 November 2025"

(* D24 as the text of a cell with blanks around it *)
PaddedD24 == "_\n " \o D24 \o "\t~"

(* a date-looking text that names no day of the calendar *)
BadDate == "Monday, 31 November 2025"

(* 07:00 on 17 November 2025, the collection time D17 stands for *)
T17 == WallSeconds(2025, 11, 17, CollectionHour)

ZoneNames == {"Europe/London", "Mars/Olympus_Mons"}

ADDRESS_TEXT == "1 High Street"

OtherAddress == "2 Low Road"

NoTable == [table |-> None]

Page(thead, rows) == [table |-> Some([thead |-> thead, tbody |-> Some(rows)])]

Row(th, tds) == [th |-> th, tds |-> tds]

(* the pages the scraper is served from one run to the next *)
PageSet ==
    { NoTable,
      [table |-> Some([thead |-> Some(<<"Next collection", "Last collection">>),
                       tbody |-> None])],
      Page(Some(<<"Next collection", "Last collection">>),
           <<Row(Some(<<"Black Rubbish Bin", "Blue Cardboard Bag">>),
                 <<D17, D10>>)>>),
      Page(None,
           <<Row(Some(<<"Food Waste Caddy">>), <<D17>>),
             Row(Some(<<"Special One-Off Collection">>), <<>>)>>),
      Page(None,
           <<Row(Some(<<"Food Waste Bin">>), <<D17, D10>>),
             Row(Some(<<"Kitchen Caddy">>), <<D24>>)>>),
      Page(Some(<<"Collection", "Next collection", "Last collection">>),
           <<Row(None, <<"Garden Waste", D24, "">>)>>),
      Page(Some(<<"Collection", "Next collection", "Last collection">>),
           <<Row(Some(<<"Green Recycling Box">>), <<"", D24, D17>>)>>) }

(* wall-clock readings around the collection time of D17 *)
RunClocks == {T17 - 60, T17 + 30}

(* the most seconds the clock advances during one run *)
MaxDrift == 1

(* the most clock readings one run of the pages above takes *)
MaxReads == 4

(* the clock readings of a run started at t: the clock steps by d seconds
   before the j-th of its n readings, and not at all when j = 0 *)
Readings(n, t, j, d) == [k \in 1..n |-> IF j > 0 /\ k >= j THEN t + d ELSE t]

StaleRow ==
    [c \in BinColumns \cup {"site_last_checked"} |->
        Some([wall |-> T17 - 30 * SecondsPerDay, tz |-> "Europe/London"])]

InitialTables ==
    { EmptyDict,
      (ADDRESS_TEXT :> StaleRow) @@ (OtherAddress :> StaleRow) }

----------------------------------------------------------------------------
(* The scraper, run again and again against one database *)

Init ==
    /\ TIMEZONE \in ZoneNames
    /\ clock \in RunClocks
    /\ html = NoTable
    /\ collections = <<>>
    /\ db \in InitialTables
    /\ prev = None
    /\ call = None
    /\ ret = None

(* time passes, or the wall clock is set, between two runs *)
SetClock(t) ==
    /\ clock' = t
    /\ UNCHANGED <<TIMEZONE, html, collections, db, prev, call, ret>>

(* the tail of main() once the table is parsed: run is the result of
   parse_collection_table and nows the clock readings *)
StoreRun(doc, nows, run) ==
    /\ html' = doc
    /\ collections' = run.items
    /\ db' = store_collections(db, ADDRESS_TEXT, run.items, nows[run.calls + 1])
    /\ clock' = nows[run.calls + 1]
    /\ call' = Some([started |-> clock, reads |-> run.calls + 1])
    /\ UNCHANGED <<TIMEZONE, prev, ret>>

ParseAndStore(doc, nows) == StoreRun(doc, nows, ParseRun(doc, nows))

(* main(), from the wait for the results table on: the page served is doc.
   page.wait_for_selector("table") raises when the page shows no table, and
   the run ends with nothing parsed or stored; otherwise the table is
   parsed and the result stored. The clock steps by d seconds before the
   j-th reading of the run. *)
Main(doc, j, d) ==
    /\ j = 0 \/ clock \in RunClocks
    /\ IF IsNone(doc.table)
           THEN UNCHANGED vars
           ELSE ParseAndStore(doc, Readings(MaxReads, clock, j, d))

Next ==
    \/ \E t \in RunClocks : SetClock(t)
    \/ \E doc \in PageSet : Main(doc, 0, 0)
    \/ \E doc \in PageSet, j \in 1..MaxReads, d \in 1..MaxDrift : Main(doc, j, d)

Spec == Init /\ [][Next]_vars

----------------------------------------------------------------------------
(* The values the variables keep in the specifications of single functions *)

Idle ==
    /\ clock = T17
    /\ html = NoTable
    /\ collections = <<>>
    /\ db = EmptyDict
    /\ prev = None

IdleVars == <<TIMEZONE, clock, html, collections, db, prev>>

(* The states hold the strings given to the functions in ASCII. A character
   outside ASCII is held as a stand-in, a character the strings have no
   other use for, and Typed gives the string that is passed to the function:
   "_" is the blank U+1680, "~" the blank U+00A0, "^" the blank U+0085, and
   "$", "<", "#" are the digits 0, 1, 7 of U+06F0..U+06F9, "@" the digit 2 of
   U+0BE6.., "%" the digit 2 of U+07C0.. and "!" the digit 5 of U+09E6.. *)
StandIns == "_~^$<#@%!"

StoodFor == "  ۰۱۷௨߂৫"

TypedChar(c) ==
    IF IndexOf(StandIns, c, 1) = 0 THEN c ELSE Ch(StoodFor, IndexOf(StandIns, c, 1))

RECURSIVE TypedFrom(_, _)
TypedFrom(s, i) ==
    IF i > Len(s) THEN "" ELSE TypedChar(Ch(s, i)) \o TypedFrom(s, i + 1)

Typed(s) == TypedFrom(s, 1)

(* Typed of an optional string, and of each string of a sequence *)
TypedOpt(o) == IF o = None THEN None ELSE Some(Typed(Val(o)))

TypedAll(seq) == [i \in DOMAIN seq |-> Typed(seq[i])]

(* Typed of each string of a row, of a table and of a document *)
TypedRow(row) ==
    [th |-> IF row.th = None THEN None ELSE Some(TypedAll(Val(row.th))),
     tds |-> TypedAll(row.tds)]

TypedTable(table) ==
    [thead |-> IF table.thead = None THEN None
               ELSE Some(TypedAll(Val(table.thead))),
     tbody |-> IF table.tbody = None THEN None
               ELSE Some([i \in DOMAIN Val(table.tbody) |->
                             TypedRow(Val(table.tbody)[i])])]

TypedDoc(doc) ==
    [table |-> IF doc.table = None THEN None
               ELSE Some(TypedTable(Val(doc.table)))]

----------------------------------------------------------------------------
(* Classification of labels: get_waste_group and get_bin_type_column_prefix
   applied to one label *)

Keywords ==
    <<"black", "rubbish", "blue", "cardboard", "bag", "food", "caddy",
      "green", "recycling", "garden", "waste">>

(* the upper-case letter of an ASCII lower-case letter *)
UpperChar(c) ==
    IF IndexOf("abcdefghijklmnopqrstuvwxyz", c, 1) = 0 THEN c
    ELSE Ch(UpperAlpha, IndexOf("abcdefghijklmnopqrstuvwxyz", c, 1))

RECURSIVE UpperFrom(_, _)
UpperFrom(s, i) ==
    IF i > Len(s) THEN "" ELSE UpperChar(Ch(s, i)) \o UpperFrom(s, i + 1)

Casings == {"lower", "Title", "UPPER"}

(* a keyword in one of the letter cases *)
Cased(w, casing) ==
    IF casing = "UPPER" THEN UpperFrom(w, 1)
    ELSE IF casing = "Title" THEN UpperChar(Ch(w, 1)) \o SubSeq(w, 2, Len(w))
    ELSE w

RECURSIVE LabelWords(_, _, _)
(* the keywords numbered in ks, in the order of Keywords, from the i-th on *)
LabelWords(ks, casing, i) ==
    IF i > Len(Keywords) THEN <<>>
    ELSE (IF i \in ks THEN <<Cased(Keywords[i], casing)>> ELSE <<>>)
         \o LabelWords(ks, casing, i + 1)

(* the label made of the keywords numbered in ks *)
LabelOf(ks, casing) == join(" ", LabelWords(ks, casing, 1))

InitClassify ==
    /\ TIMEZONE = "Europe/London"
    /\ Idle
    /\ \E ks \in SUBSET (1..Len(Keywords)), casing \in Casings :
           call = Some([label |-> LabelOf(ks, casing),
                        words |-> {Keywords[i] : i \in ks}])
    /\ ret = None

(* both classifications of the label, as parse_collection_table and
   store_collections obtain them *)
Classify ==
    /\ ret = None
    /\ ret' = Some([waste_group |-> get_waste_group(Some(Val(call).label)),
                    storage_key |->
                        get_bin_type_column_prefix(Some(Val(call).label))])
    /\ UNCHANGED <<IdleVars, call>>

NextClassify == Classify

SpecClassify == InitClassify /\ [][NextClassify]_vars

----------------------------------------------------------------------------
(* format_time_until_next applied to one pair of arguments *)

MaxDays == 2

MaxMinutes == 3300

InitFormat ==
    /\ TIMEZONE = "Europe/London"
    /\ Idle
    /\ \E days \in 0..MaxDays, minutes \in 0..MaxMinutes :
           call = Some([days |-> days, minutes |-> minutes])
    /\ ret = None

Format ==
    /\ ret = None
    /\ ret' = Some(format_time_until_next(Val(call).days, Val(call).minutes))
    /\ UNCHANGED <<IdleVars, call>>

NextFormat == Format

SpecFormat == InitFormat /\ [][NextFormat]_vars

----------------------------------------------------------------------------
(* calculate_time_differences applied to one pair of date strings at one
   reading of the clock *)

(* date strings with the collection time each stands for, None when
   parse_collection_date is to give none: the day is one or two digits of
   which the first is an ASCII digit, and the blanks and the other digits
   are any of Unicode *)
DateInputs ==
    { [str |-> None, at |-> None],
      [str |-> Some(""), at |-> None],
      [str |-> Some(D17), at |-> Some(T17)],
      [str |-> Some("Sunday,  17 november 2025 "), at |-> Some(T17)],
      [str |-> Some("Monday, _\f17_NOVEMBER~^2025_"), at |-> Some(T17)],
      [str |-> Some("Monday, 1# November @$%!"), at |-> Some(T17)],
      [str |-> Some("Monday, <# November 2025"), at |-> None],
      [str |-> Some("Monday, 31 November 2025"), at |-> None],
      [str |-> Some("Monday"), at |-> None] }

(* the largest distance in days between the clock and T17 *)
MaxOffsetDays == 2

OffsetHours == {0, 5, 23}

OffsetMinutes == {0, 1, 30, 59}

OffsetSeconds == {0, 1, 59}

(* clock readings on both sides of T17 *)
TimeInputs ==
    { T17 + sign * (d * SecondsPerDay + h * 60 * SecondsPerMinute
                        + m * SecondsPerMinute + sec) :
        sign \in {-1, 1}, d \in 0..MaxOffsetDays, h \in OffsetHours,
        m \in OffsetMinutes, sec \in OffsetSeconds }

InitTimeDiff ==
    /\ TIMEZONE \in ZoneNames
    /\ Idle
    /\ \E n \in DateInputs, l \in DateInputs, t \in TimeInputs :
           call = Some([next |-> n, last |-> l, now |-> t])
    /\ ret = None

TimeDiff ==
    /\ ret = None
    /\ ret' = Some(calculate_time_differences(
                       TypedOpt(Val(call).next.str), TypedOpt(Val(call).last.str),
                       Now(Val(call).now)))
    /\ UNCHANGED <<IdleVars, call>>

NextTimeDiff == TimeDiff

SpecTimeDiff == InitTimeDiff /\ [][NextTimeDiff]_vars

----------------------------------------------------------------------------
(* parse_collection_table and store_collections applied to one table, with
   the clock standing still *)

(* the rows the tables are made of *)
TableRows ==
    << Row(None, <<D17>>),
       Row(None, <<"Garden Waste", D24, D10>>),
       Row(None, <<>>),
       Row(None, <<"Special One-Off Collection">>),
       Row(Some(<<>>), <<D17, D10>>),
       Row(Some(<<"Black Rubbish Bin">>), <<D17, D10>>),
       Row(Some(<<"Black Rubbish Bin", "Blue Cardboard Bag">>), <<D17>>),
       Row(Some(<<"_Green ~Recycling\n Box^", "  ", "Food Waste Caddy",
                  "Special One-Off Collection">>), <<"", PaddedD24>>),
       Row(Some(<<"Special One-Off Collection">>), <<>>),
       Row(Some(<<"Black Rubbish Bin\t|\tBlue Cardboard Bag">>), <<D17>>),
       Row(Some(<<"Garden Waste_|_Food Waste Caddy">>), <<BadDate, D10>>) >>

(* the most rows of a table *)
MaxRows == 2

RECURSIVE RowSeqs(_)
(* the sequences of exactly n rows *)
RowSeqs(n) ==
    IF n = 0 THEN {<<>>}
    ELSE {<<TableRows[i]>> \o rest : i \in 1..Len(TableRows),
                                     rest \in RowSeqs(n - 1)}

TableHeads ==
    {None, Some(<<"Collection", "Next collection", "Last collection">>)}

TableDocs ==
    {Page(thead, rows) : thead \in TableHeads,
                         rows \in UNION {RowSeqs(n) : n \in 0..MaxRows}}

ParseClocks == {T17 - SecondsPerDay - 3700, T17 + 30}

(* the clock readings one row takes at most: one per part of a type that
   holds " | ", one otherwise *)
ReadsOfRow(collection_type) ==
    IF Truthy(collection_type) /\ Contains(Val(collection_type), " | ")
        THEN Len(split_sep(Val(collection_type), " | "))
        ELSE 1

RECURSIVE ReadsOf(_, _)
(* the clock readings a run over these rows takes at most: those of each
   row, and one for the store *)
ReadsOf(rows, idx) ==
    IF Len(rows) = 0 THEN 1
    ELSE ReadsOfRow(RowCollectionType(Head(rows), RowValues(Head(rows)), idx))
         + ReadsOf(Tail(rows), idx)

InitTable ==
    /\ TIMEZONE = "Europe/London"
    /\ clock \in ParseClocks
    /\ html \in TableDocs
    /\ collections = <<>>
    /\ db = EmptyDict
    /\ prev = None
    /\ call = None
    /\ ret = None

(* the clock readings of a run over the document doc *)
TableReadings(doc) ==
    Readings(ReadsOf(Val(Val(doc.table).tbody), ColumnIndices(Val(doc.table))),
             clock, 0, 0)

ParseTable ==
    /\ call = None
    /\ StoreRun(html, TableReadings(TypedDoc(html)),
                ParseRun(TypedDoc(html), TableReadings(TypedDoc(html))))

NextTable == ParseTable

SpecTable == InitTable /\ [][NextTable]_vars

----------------------------------------------------------------------------
(* parse_collection_table run twice on one page from one reading of the
   clock; the clock goes on during each run *)

InitTwice ==
    /\ TIMEZONE \in ZoneNames
    /\ clock \in RunClocks
    /\ html \in PageSet
    /\ collections = <<>>
    /\ db = EmptyDict
    /\ prev = None
    /\ call = None
    /\ ret = None

(* the first run; the clock steps by d seconds before its j-th reading *)
FirstRun(j, d) ==
    /\ prev = None
    /\ prev' = Some(parse_collection_table(
                        html, Readings(MaxReads, clock, j, d)))
    /\ UNCHANGED <<TIMEZONE, clock, html, collections, db, call, ret>>

(* the second run, on the same html from the same reading of the clock *)
SecondRun(j, d) ==
    /\ prev # None
    /\ ret = None
    /\ collections' = parse_collection_table(
                          html, Readings(MaxReads, clock, j, d))
    /\ ret' = Some("twice")
    /\ UNCHANGED <<TIMEZONE, clock, html, db, prev, call>>

NextTwice ==
    \/ FirstRun(0, 0)
    \/ \E j \in 1..MaxReads, d \in 1..MaxDrift : FirstRun(j, d)
    \/ SecondRun(0, 0)
    \/ \E j \in 1..MaxReads, d \in 1..MaxDrift : SecondRun(j, d)

SpecTwice == InitTwice /\ [][NextTwice]_vars

----------------------------------------------------------------------------
(* parse_collection_table applied to a page of at most one row, with the
   outcome of the call (returned or raised) and the values the loop body
   resolves for the row *)

(* seq[i] raises IndexError *)
IndexError(seq, i) == i >= Len(seq)

(* the subscripts of the type lookup of a row raise *)
TypeLookupRaises(row, values, idx) ==
    IF ~IsNone(row.th) THEN FALSE
    ELSE IF InRow(idx.collection_type_idx, values)
        THEN IndexError(values, Val(idx.collection_type_idx))
    ELSE IF Len(values) > 0 THEN IndexError(values, 0)
    ELSE FALSE

(* the subscript of a header-mapped date lookup raises *)
MappedLookupRaises(values, col_idx) ==
    InRow(col_idx, values) /\ IndexError(values, Val(col_idx))

(* the subscripts date_values[0] and date_values[1] of the fallback raise *)
PositionalRaises(date_values) ==
    \/ Len(date_values) # 0 /\ IndexError(date_values, 0)
    \/ Len(date_values) >= 2 /\ IndexError(date_values, 1)

(* the exceptions datetime.strptime(date_part, "%d %B %Y") raises *)
StrptimeRaises(date_part) ==
    IF IsNone(strptime_dBY(date_part)) THEN {"ValueError"} ELSE {}

(* except (ValueError, AttributeError) *)
CaughtErrors == {"ValueError", "AttributeError"}

(* parse_collection_date(date_str) raises: an exception of its try block
   is none of those its except clause catches *)
ParseDateRaises(date_str) ==
    /\ Truthy(date_str)
    /\ StrptimeRaises(strip(AfterFirstComma(Val(date_str)))) \ CaughtErrors # {}

(* calculate_time_differences(next_collection, last_collection) raises *)
TimeDiffRaises(next_collection, last_collection) ==
    \/ ParseDateRaises(next_collection)
    \/ ParseDateRaises(last_collection)

(* the body of the loop raises on this row: on a subscript, or in
   calculate_time_differences *)
RowRaisesOn(row, values, idx) ==
    \/ TypeLookupRaises(row, values, idx)
    \/ MappedLookupRaises(values, idx.next_col_idx)
    \/ MappedLookupRaises(values, idx.last_col_idx)
    \/ PositionalRaises(DateValues(values))
    \/ TimeDiffRaises(RowNextCollection(values, idx),
                      RowLastCollection(values, idx))

RowRaises(row, idx) == RowRaisesOn(row, RowValues(row), idx)

(* the values of collection_type, next_collection and last_collection once
   the row's dates are resolved *)
RowLocalsOf(row, values, idx) ==
    [collection_type |-> RowCollectionType(row, values, idx),
     next_collection |-> RowNextCollection(values, idx),
     last_collection |-> RowLastCollection(values, idx)]

RowLocals(row, idx) == RowLocalsOf(row, RowValues(row), idx)

Returned(items, locals) == [raised |-> FALSE, items |-> items, locals |-> locals]

Raised == [raised |-> TRUE, items |-> <<>>, locals |-> <<>>]

RowsOutcome(doc, rows, idx, nows) ==
    IF \E i \in 1..Len(rows) : RowRaises(rows[i], idx) THEN Raised
    ELSE Returned(ParseRun(doc, nows).items,
                  [i \in 1..Len(rows) |-> RowLocals(rows[i], idx)])

(* the outcome of parse_collection_table(html): what it returns, with the
   locals of each turn of the loop, or that it raised *)
ParseOutcome(doc, nows) ==
    IF IsNone(doc.table) THEN Returned(<<>>, <<>>)
    ELSE IF IsNone(Val(doc.table).tbody) THEN Returned(<<>>, <<>>)
    ELSE RowsOutcome(doc, Val(Val(doc.table).tbody),
                     ColumnIndices(Val(doc.table)), nows)

(* the texts of the td cells *)
CellTexts == <<"", "Garden Waste", D17, D10, PaddedD24, BadDate>>

(* the most td cells of a row *)
MaxCells == 3

RECURSIVE CellSeqs(_)
(* the sequences of exactly n cells *)
CellSeqs(n) ==
    IF n = 0 THEN {<<>>}
    ELSE {<<CellTexts[i]>> \o rest : i \in 1..Len(CellTexts),
                                     rest \in CellSeqs(n - 1)}

RowHeaders ==
    { None, Some(<<>>), Some(<<"Food Waste Caddy">>),
      Some(<<"Special One-Off Collection">>) }

RowHeads ==
    { None,
      Some(<<"Collection", "Next collection", "Last collection">>),
      Some(<<"Last collection", "Next collection", "Collection">>),
      Some(<<"Bin", "Collection", "Next collection">>),
      Some(<<"Last collection", "Collection">>) }

OneRowDocs ==
    {Page(thead, <<Row(th, tds)>>) :
        thead \in RowHeads, th \in RowHeaders,
        tds \in UNION {CellSeqs(n) : n \in 0..MaxCells}}

(* the pages without a table, or with a table without a tbody *)
BodilessDocs ==
    {NoTable} \cup {[table |-> Some([thead |-> thead, tbody |-> None])] :
                       thead \in RowHeads}

RowDocs == OneRowDocs \cup BodilessDocs \cup {Page(thead, <<>>) : thead \in RowHeads}

InitRow ==
    /\ TIMEZONE = "Europe/London"
    /\ clock = T17
    /\ html \in RowDocs
    /\ collections = <<>>
    /\ db = EmptyDict
    /\ prev = None
    /\ call = None
    /\ ret = None

(* one call of parse_collection_table(html) *)
ParseRow ==
    /\ ret = None
    /\ ret' = Some(ParseOutcome(TypedDoc(html), Readings(MaxReads, clock, 0, 0)))
    /\ collections' = Val(ret').items
    /\ UNCHANGED <<TIMEZONE, clock, html, db, prev, call>>

NextRow == ParseRow

SpecRow == InitRow /\ [][NextRow]_vars

----------------------------------------------------------------------------
(* parse_collection_date applied to one date string, and to the same string
   under another weekday name *)

DateZones == ZoneNames \cup {"America/New_York", "UTC", "posix/Europe/London"}

(* day, month and year tokens with the numbers they stand for; day 0 is no
   day of a month and month 0 no month name. A day is one or two digits of
   which the first is an ASCII digit. *)
DayTokens ==
    { [text |-> "0", n |-> 0], [text |-> "1", n |-> 1],
      [text |-> "07", n |-> 7], [text |-> "17", n |-> 17],
      [text |-> "29", n |-> 29], [text |-> "30", n |-> 30],
      [text |-> "31", n |-> 31], [text |-> "32", n |-> 32],
      [text |-> "1#", n |-> 17], [text |-> "<#", n |-> 0],
      [text |-> "3$", n |-> 0], [text |-> "#", n |-> 0] }

MonthTokens ==
    { [text |-> "February", n |-> 2], [text |-> "April", n |-> 4],
      [text |-> "November", n |-> 11], [text |-> "Nov", n |-> 0] }

YearTokens ==
    { [text |-> "2024", n |-> 2024], [text |-> "2025", n |-> 2025],
      [text |-> "@$%!", n |-> 2025] }

(* the tails of date strings that are no "<day> <MonthName> <year>" *)
BadTails == {"", "unknown", "17-11-2025", "17 November 2025, 7am", "17 November"}

(* 17 November 2025 written with other blanks than the space *)
BlankTails ==
    {"\f17\fNovember 2025\f", "17\t\tNovember\n2025", "\r17 November\f 2025",
     "_17_November~2025^", "~17 ^November_ 2025"}

DateCall(prefix, other, tail, d, m, y) ==
    Some([date_str |-> Some(prefix \o ", " \o tail),
          other_str |-> Some(other \o ", " \o tail),
          day |-> d, month |-> m, year |-> y])

DateTail(d, m, y) == d.text \o " " \o m.text \o " " \o y.text

DateCalls ==
    {DateCall(w, v, DateTail(d, m, y), d.n, m.n, y.n) :
        w \in {"Monday", "Sunday"}, v \in {"Tuesday", "Friday"},
        d \in DayTokens, m \in MonthTokens, y \in YearTokens}
    \cup {DateCall(w, v, tail, 0, 0, 0) :
              w \in {"Monday"}, v \in {"Tuesday"}, tail \in BadTails}
    \cup {DateCall(w, v, tail, 17, 11, 2025) :
              w \in {"Monday"}, v \in {"Tuesday"}, tail \in BlankTails}
    \cup {Some([date_str |-> o, other_str |-> o,
                day |-> 0, month |-> 0, year |-> 0]) : o \in {None, Some("")}}

InitDate ==
    /\ TIMEZONE \in DateZones
    /\ Idle
    /\ call \in DateCalls
    /\ ret = None

(* parse_collection_date(date_str) and parse_collection_date(other_str) *)
ParseDate ==
    /\ ret = None
    /\ ret' = Some([result |-> parse_collection_date(TypedOpt(Val(call).date_str)),
                    other |-> parse_collection_date(TypedOpt(Val(call).other_str))])
    /\ UNCHANGED <<IdleVars, call>>

NextDate == ParseDate

SpecDate == InitDate /\ [][NextDate]_vars

----------------------------------------------------------------------------
(* Claims about classification, under SpecClassify *)

(* the rule table of the classifier, in its stated order, decided on the
   set of keywords a label holds: the number of the first rule that holds,
   0 when none does *)
FirstRule(words) ==
    IF {"black", "rubbish"} \subseteq words THEN 1
    ELSE IF "blue" \in words /\ ({"cardboard", "bag"} \cap words # {}) THEN 2
    ELSE IF {"food", "caddy"} \cap words # {} THEN 3
    ELSE IF {"green", "recycling"} \subseteq words THEN 4
    ELSE IF {"garden", "waste"} \subseteq words THEN 5
    ELSE 0

GroupOfRule ==
    <<Some(<<"General Rubbish (black bin)">>),
      Some(<<"Cardboard (blue bag/box)">>),
      Some(<<"Food Waste (caddy)">>),
      Some(<<"Plastics & Metals (green box)", "Glass & Paper (green box)">>),
      Some(<<"Garden Waste (garden bin subscription)">>)>>

KeyOfRule ==
    <<Some("black_rubbish_140l"), Some("blue_cardboard_bag"),
      Some("black_food_waste"), Some("green_recycling_box"),
      Some("green_garden_bin")>>

ExpectedClass(rule) ==
    IF rule = 0 THEN [waste_group |-> None, storage_key |-> None]
    ELSE [waste_group |-> GroupOfRule[rule], storage_key |-> KeyOfRule[rule]]

(* C2: for every label over the keywords, in any letter case, the waste
   group and the storage key returned are those of one rule, the first rule
   of the table that holds, and (none, none) when no rule holds *)
ClaimC2 ==
    ret # None => Val(ret) = ExpectedClass(FirstRule(Val(call).words))

----------------------------------------------------------------------------
(* Claims about format_time_until_next, under SpecFormat *)

C7Unit(n, unit) ==
    IF n = 1 THEN "1 " \o unit ELSE ToString(n) \o " " \o unit \o "s"

C7Shown(n, unit) == IF n = 0 THEN <<>> ELSE <<C7Unit(n, unit)>>

C7Text(parts) ==
    IF Len(parts) = 0 THEN "Less than 1 minute"
    ELSE IF Len(parts) = 1 THEN parts[1]
    ELSE IF Len(parts) = 2 THEN parts[1] \o " and " \o parts[2]
    ELSE parts[1] \o ", " \o parts[2] \o " and " \o parts[3]

C7Expected(days, hours, remaining) ==
    C7Text(C7Shown(days, "day") \o C7Shown(hours, "hour")
               \o C7Shown(remaining, "minute"))

(* C7: for days >= 0 and total_minutes >= days * 1440 the text is the
   non-zero components among days, hours = total_minutes div 60 - 24 days
   and remaining = total_minutes mod 60, pluralized and joined with commas
   and a final "and"; the components add up to total_minutes *)
TheoremC7 ==
    (ret # None /\ Val(call).days * 1440 <= Val(call).minutes) =>
        /\ Val(ret) = C7Expected(Val(call).days,
                                 (Val(call).minutes \div 60) - Val(call).days * 24,
                                 Val(call).minutes % 60)
        /\ Val(call).days * 1440
               + ((Val(call).minutes \div 60) - Val(call).days * 24) * 60
               + (Val(call).minutes % 60) = Val(call).minutes

WitnessC7 ==
    /\ call = Some([days |-> 2, minutes |-> 2 * 1440 + 5 * 60 + 30])
    /\ ret = Some("2 days, 5 hours and 30 minutes")

----------------------------------------------------------------------------
(* Claims about calculate_time_differences, under SpecTimeDiff *)

NextKeys == {"days_until_next", "minutes_until_next", "time_until_next_text"}

LastKeys == {"days_since_last", "minutes_since_last"}

C4Future(r, ahead) ==
    /\ r.days_until_next = ahead \div 86400
    /\ r.minutes_until_next = ahead \div 60
    /\ r.time_until_next_text =
           C7Expected(ahead \div 86400, (ahead \div 3600) % 24, (ahead \div 60) % 60)

C4Past(r) ==
    /\ r.days_until_next = 0
    /\ r.minutes_until_next = 0
    /\ r.time_until_next_text = "Collection time has passed"

C4Holds(r, at, now) ==
    IF at = None THEN NextKeys \cap DOMAIN r = {}
    ELSE /\ NextKeys \subseteq DOMAIN r
         /\ IF Val(at) >= now THEN C4Future(r, Val(at) - now) ELSE C4Past(r)
         /\ r.days_until_next >= 0
         /\ r.minutes_until_next >= 0

(* C4: the three next-side fields are present exactly when next_collection
   parses to a time T; for T >= now they are the whole days and whole
   minutes of T - now and the text the formatter is to give for them (its
   days, hours and minutes by C7), for T < now they
   are 0, 0 and "Collection time has passed"; no number is negative *)
TheoremC4 ==
    ret # None => C4Holds(Val(ret), Val(call).next.at, Val(call).now)

WitnessC4 ==
    /\ ret # None
    /\ Val(call).next.str = Some("Monday, 1# November @$%!")
    /\ Val(call).next.at # None
    /\ "days_until_next" \in DOMAIN Val(ret)
    /\ Val(ret).days_until_next = 1
    /\ Val(ret).minutes_until_next = 1440 + 5 * 60 + 30

C5Applies == ret # None /\ Val(call).next.at # None
                 /\ Val(call).now < Val(Val(call).next.at)

(* C5 as stated: whenever now is strictly before the next collection time,
   days_until_next and minutes_until_next are both strictly positive *)
ClaimC5 ==
    C5Applies => /\ Val(ret).days_until_next > 0
                 /\ Val(ret).minutes_until_next > 0

C5Amended(r, ahead) ==
    /\ r.days_until_next >= 0
    /\ r.minutes_until_next >= 0
    /\ r.minutes_until_next > 0 <=> ahead >= 60
    /\ r.days_until_next > 0 <=> ahead >= 86400

(* C5 amended: whenever now is strictly before the next collection time,
   neither number is negative, minutes_until_next is positive exactly when
   the time is at least a minute ahead and days_until_next exactly when it
   is at least a day ahead *)
TheoremC5 ==
    C5Applies => C5Amended(Val(ret), Val(Val(call).next.at) - Val(call).now)

WitnessC5 ==
    /\ C5Applies
    /\ Val(Val(call).next.at) - Val(call).now < 60
    /\ Val(ret).minutes_until_next = 0
    /\ Val(ret).days_until_next = 0

C6Holds(r, at, now) ==
    IF at = None THEN LastKeys \cap DOMAIN r = {}
    ELSE /\ LastKeys \subseteq DOMAIN r
         /\ IF Val(at) <= now
                THEN /\ r.days_since_last = (now - Val(at)) \div 86400
                     /\ r.minutes_since_last = (now - Val(at)) \div 60
                ELSE /\ r.days_since_last = 0
                     /\ r.minutes_since_last = 0
         /\ r.days_since_last >= 0
         /\ r.minutes_since_last >= 0

(* C6: the two last-side fields are present exactly when last_collection
   parses to a time T; for T <= now they are the whole days and whole
   minutes of now - T, for T > now both are 0; neither is negative, and the
   last side adds no other field *)
TheoremC6 ==
    ret # None =>
        /\ C6Holds(Val(ret), Val(call).last.at, Val(call).now)
        /\ DOMAIN Val(ret) \subseteq NextKeys \cup LastKeys
        /\ Val(call).next.at = None => DOMAIN Val(ret) \subseteq LastKeys

WitnessC6 ==
    /\ ret # None
    /\ Val(call).last.str = Some("Monday, _\f17_NOVEMBER~^2025_")
    /\ Val(call).last.at # None
    /\ Val(call).next.at = None
    /\ Val(ret) = [days_since_last |-> 2, minutes_since_last |-> 2 * 1440 + 5 * 60 + 1]

----------------------------------------------------------------------------
(* Claims about parse_collection_date, under SpecDate *)

(* the days of the years 2000..y-1 and of the months before m in year y *)
C12DaysBefore(y, m) ==
    (y - 2000) * 365 + ((y - 2000 + 3) \div 4)
    + (IF m = 2 THEN 31
       ELSE IF m = 4 THEN 90 + (IF y % 4 = 0 THEN 1 ELSE 0)
       ELSE 304 + (IF y % 4 = 0 THEN 1 ELSE 0))

C12DaysIn(y, m) ==
    IF m = 2 THEN (IF y % 4 = 0 THEN 29 ELSE 28) ELSE 30

C12IsDate(y, m, d) == m # 0 /\ d >= 1 /\ d <= C12DaysIn(y, m)

(* 07:00:00 of the calendar day, in seconds of the wall clock since 2000 *)
C12SevenOClock(y, m, d) == (C12DaysBefore(y, m) + d - 1) * 86400 + 7 * 3600

C12Zone ==
    IF TIMEZONE \in {"Europe/London", "America/New_York", "UTC",
                     "posix/Europe/London"}
        THEN TIMEZONE ELSE "Europe/London"

(* C12: the result does not change with the weekday name before the first
   comma; "<day> <MonthName> <year>" of a calendar day parses to that day at
   07:00:00 in the configured zone, Europe/London when the zone name is
   invalid; every other input gives no value *)
TheoremC12 ==
    ret # None =>
        /\ Val(ret).result = Val(ret).other
        /\ Val(ret).result
               = IF C12IsDate(Val(call).year, Val(call).month, Val(call).day)
                     THEN Some([wall |-> C12SevenOClock(Val(call).year,
                                                        Val(call).month,
                                                        Val(call).day),
                                tz |-> C12Zone])
                     ELSE None

WitnessC12 ==
    /\ ret # None
    /\ TIMEZONE = "Mars/Olympus_Mons"
    /\ Val(call).date_str = Some("Sunday, 1# November @$%!")
    /\ Val(call).other_str = Some("Friday, 1# November @$%!")
    /\ Val(ret).result = Some([wall |-> T17, tz |-> "Europe/London"])

----------------------------------------------------------------------------
(* The values expected of the cells and labels the pages are made of *)

(* the text of a td cell: what it holds without the blanks around it *)
CellText(td) == IF td = PaddedD24 THEN D24 ELSE td

CellValues(tds) == [i \in 1..Len(tds) |-> CellText(tds[i])]

(* the cell texts that look like a date: they hold the name of a weekday *)
DateLooking == {D10, D17, D24, BadDate}

(* the collection time each date string stands for, none for BadDate *)
TimeOfDate ==
    (D10 :> Some([wall |-> T17 - 7 * 86400, tz |-> "Europe/London"]))
    @@ (D17 :> Some([wall |-> T17, tz |-> "Europe/London"]))
    @@ (D24 :> Some([wall |-> T17 + 7 * 86400, tz |-> "Europe/London"]))
    @@ (BadDate :> None)

(* the time an optional date string stands for *)
ExpectedTime(date) == IF date = None THEN None ELSE TimeOfDate[Val(date)]

(* the storage key of each label of the pages, none for a label that
   matches no rule *)
KeyOfLabel ==
    ("Black Rubbish Bin" :> Some("black_rubbish_140l"))
    @@ ("Blue Cardboard Bag" :> Some("blue_cardboard_bag"))
    @@ ("Food Waste Caddy" :> Some("black_food_waste"))
    @@ ("Food Waste Bin" :> Some("black_food_waste"))
    @@ ("Kitchen Caddy" :> Some("black_food_waste"))
    @@ ("Green Recycling Box" :> Some("green_recycling_box"))
    @@ ("Garden Waste" :> Some("green_garden_bin"))
    @@ ("Special One-Off Collection" :> None)

(* the storage key of a record, none for a record without a label *)
ExpectedKey(item) ==
    IF "collection_type" \in DOMAIN item
        THEN KeyOfLabel[item.collection_type] ELSE None

----------------------------------------------------------------------------
(* Claims about the resolution of one row, under SpecRow *)

(* the states in which a page of one row has been parsed *)
C13Parsed ==
    /\ ret # None
    /\ html \in OneRowDocs
    /\ ~Val(ret).raised

C13Row == Val(Val(html.table).tbody)[1]

C13Idx == ColumnIndices(Val(html.table))

(* a cell usable as a type: non-empty and not looking like a date *)
C13Usable(v) == v # "" /\ v \notin DateLooking

(* the text of a row header of one text node at most *)
C13Header(th) == IF Len(th) = 0 THEN "" ELSE th[1]

(* the resolution order (a) row header, (b) usable cell at the type column,
   (c) usable first cell, (d) none *)
C13Expected(row, idx) ==
    IF row.th # None THEN Some(C13Header(Val(row.th)))
    ELSE IF /\ idx.collection_type_idx # None
            /\ Val(idx.collection_type_idx) < Len(row.tds)
            /\ C13Usable(CellValues(row.tds)[Val(idx.collection_type_idx) + 1])
        THEN Some(CellValues(row.tds)[Val(idx.collection_type_idx) + 1])
    ELSE IF Len(row.tds) > 0 /\ C13Usable(CellValues(row.tds)[1])
        THEN Some(CellValues(row.tds)[1])
    ELSE None

(* C13: the collection type of a row is resolved in the order (a) to (d);
   when the cell at a mapped type column is empty or looks like a date, the
   first cell is still tried *)
ClaimC13 ==
    C13Parsed =>
        Val(ret).locals[1].collection_type = C13Expected(C13Row, C13Idx)

C14IsDate(v) == v \in DateLooking

(* the 0-based position of the last thead cell holding the text, if any *)
C14Col(heads, text) ==
    IF heads = None THEN None
    ELSE IF \A i \in 1..Len(Val(heads)) : ~Contains(Val(heads)[i], text)
        THEN None
    ELSE Some((CHOOSE i \in 1..Len(Val(heads)) :
                  /\ Contains(Val(heads)[i], text)
                  /\ \A j \in (i + 1)..Len(Val(heads)) :
                         ~Contains(Val(heads)[j], text)) - 1)

(* the cell at the mapped position when it is within the row and looks like
   a date, otherwise the k-th date-looking cell of the row; values are the
   texts of the td cells *)
C14Field(values, col, k) ==
    IF col # None /\ Val(col) < Len(values) /\ C14IsDate(values[Val(col) + 1])
        THEN Some(values[Val(col) + 1])
    ELSE IF Len(SelectSeq(values, C14IsDate)) >= k
        THEN Some(SelectSeq(values, C14IsDate)[k])
    ELSE None

(* the next and the last date of a row under the thead heads *)
C14Next(row, heads) ==
    C14Field(CellValues(row.tds), C14Col(heads, "Next collection"), 1)

C14Last(row, heads) ==
    C14Field(CellValues(row.tds), C14Col(heads, "Last collection"), 2)

(* C14: next_collection is the td cell at the header-mapped next position
   when mapped, within the row and date-looking, otherwise the first
   date-looking td cell; last_collection the td cell at the mapped last
   position, otherwise the second date-looking td cell; positions count td
   cells only, and every record of the row carries these values *)
TheoremC14 ==
    C13Parsed =>
        /\ Val(ret).locals[1].next_collection
               = C14Next(C13Row, Val(html.table).thead)
        /\ Val(ret).locals[1].last_collection
               = C14Last(C13Row, Val(html.table).thead)
        /\ \A k \in 1..Len(collections) :
               /\ Get(collections[k], "next_collection")
                      = C14Next(C13Row, Val(html.table).thead)
               /\ Get(collections[k], "last_collection")
                      = C14Last(C13Row, Val(html.table).thead)

(* a row with a row header whose mapped columns reverse the order of its
   dates, one of them in a cell with blanks around it *)
WitnessC14 ==
    /\ C13Parsed
    /\ Val(html.table).thead
           = Some(<<"Last collection", "Next collection", "Collection">>)
    /\ C13Row = Row(Some(<<"Food Waste Caddy">>), <<D10, PaddedD24, "Garden Waste">>)
    /\ Len(collections) = 1
    /\ collections[1].next_collection = D24
    /\ collections[1].last_collection = D10

(* the td cells of the row hold pairwise different texts, so that two equal
   values come from one cell *)
C16Distinct(tds) ==
    \A i, j \in 1..Len(tds) : CellText(tds[i]) = CellText(tds[j]) => i = j

(* C16: in every record with both next_collection and last_collection the
   two values come from two different td cells of the row *)
ClaimC16 ==
    (C13Parsed /\ C16Distinct(C13Row.tds)) =>
        \A k \in 1..Len(collections) :
            {"next_collection", "last_collection"} \subseteq DOMAIN collections[k]
                => collections[k].next_collection
                       # collections[k].last_collection

----------------------------------------------------------------------------
(* Claims about the outcome of parse_collection_table, under SpecRow *)

(* C11: a page without a table, or with a table without a tbody, yields the
   empty sequence whatever its thead holds, and parse_collection_table
   raises on no row: not on empty cells, unknown labels, malformed dates or
   fewer cells than header columns *)
TheoremC11 ==
    ret # None =>
        /\ ~Val(ret).raised
        /\ html \in BodilessDocs => Val(ret).items = <<>>

(* a row of an unknown label with an empty cell and a malformed date, and
   with fewer cells than the header has columns *)
WitnessC11 ==
    /\ ret # None
    /\ html = Page(Some(<<"Collection", "Next collection", "Last collection">>),
                   <<Row(Some(<<"Special One-Off Collection">>),
                         <<"", BadDate>>)>>)
    /\ Val(ret) = Returned(<<[collection_type |-> "Special One-Off Collection",
                              next_collection |-> BadDate]>>,
                           <<[collection_type |-> Some("Special One-Off Collection"),
                              next_collection |-> Some(BadDate),
                              last_collection |-> None]>>)

(* a table without a tbody yields no record *)
WitnessC11Bodiless ==
    /\ ret # None
    /\ html = [table |-> Some([thead |-> Some(<<"Bin", "Collection",
                                                "Next collection">>),
                               tbody |-> None])]
    /\ Val(ret) = Returned(<<>>, <<>>)

----------------------------------------------------------------------------
(* Claims about parse_collection_table, under SpecTable *)

TableRowsOf(doc) == Val(Val(doc.table).tbody)

(* C1: every record returned carries a non-empty collection_type; a row for
   which no label is resolved contributes no record *)
ClaimC1 ==
    call # None =>
        \A k \in 1..Len(collections) :
            /\ "collection_type" \in DOMAIN collections[k]
            /\ collections[k].collection_type # ""

(* the header text of a row: the texts between its line breaks, the line
   breaks kept as the separator " | " *)
C3HeaderText(row) == join(" | ", StrippedNonEmpty(TypedAll(Val(row.th))))

(* a text with its runs of whitespace collapsed to one space *)
C3Normalized(text) == join(" ", split_ws(text))

RECURSIVE C3Parts(_)
(* the trimmed non-empty ones of the parts *)
C3Parts(parts) ==
    IF Len(parts) = 0 THEN <<>>
    ELSE (IF strip(Head(parts)) = "" THEN <<>>
          ELSE <<C3Normalized(Head(parts))>>)
         \o C3Parts(Tail(parts))

(* the labels a header text encodes: its parts when it holds the separator,
   otherwise the whole text, and none when it is blank *)
C3Split(text) ==
    IF Contains(text, " | ") THEN C3Parts(split_sep(text, " | "))
    ELSE IF strip(text) = "" THEN <<>>
    ELSE <<C3Normalized(text)>>

C3Labels(row) == IF row.th = None THEN <<>> ELSE C3Split(C3HeaderText(row))

C3Triple(item) ==
    <<Get(item, "collection_type"), Get(item, "next_collection"),
      Get(item, "last_collection")>>

C3Triples(items) == [k \in 1..Len(items) |-> C3Triple(items[k])]

(* the records of one row: one per label of its header, each with the dates
   of the row *)
C3Group(row, heads) ==
    [k \in 1..Len(C3Labels(row)) |->
        <<Some(C3Labels(row)[k]), C14Next(row, heads), C14Last(row, heads)>>]

RECURSIVE C3Concat(_, _)
C3Concat(rows, heads) ==
    IF Len(rows) = 0 THEN <<>>
    ELSE C3Group(Head(rows), heads) \o C3Concat(Tail(rows), heads)

(* every row of the table has a header that encodes a label *)
C3Headed(rows) == \A i \in 1..Len(rows) : Len(C3Labels(rows[i])) >= 1

(* C3: a row whose header encodes N labels joined by " | " gives exactly N
   records, one per label in the header's order, each with the next and
   last date strings of the row; the output is the rows' groups in table
   order *)
ClaimC3 ==
    (call # None /\ C3Headed(TableRowsOf(html))) =>
        C3Triples(collections)
            = C3Concat(TableRowsOf(html), Val(html.table).thead)

(* the labels the rows of TableRows give, row by row: the parts of the
   header text once its whitespace is collapsed, or the type cell of a row
   without a header *)
TableLabels ==
    << <<>>,
       <<"Garden Waste">>,
       <<>>,
       <<"Special One-Off Collection">>,
       <<>>,
       <<"Black Rubbish Bin">>,
       <<"Black Rubbish Bin", "Blue Cardboard Bag">>,
       <<"Green Recycling Box", "Food Waste Caddy",
         "Special One-Off Collection">>,
       <<"Special One-Off Collection">>,
       <<"Black Rubbish Bin", "Blue Cardboard Bag">>,
       <<"Garden Waste", "Food Waste Caddy">> >>

(* the rows of an unknown label without a date *)
C9BareRows == {TableRows[4], TableRows[9]}

C9LabelsOf(row) ==
    TableLabels[CHOOSE i \in 1..Len(TableRows) : TableRows[i] = row]

RECURSIVE C9Concat(_)
(* the labels of the rows, in the order of the table *)
C9Concat(rows) ==
    IF Len(rows) = 0 THEN <<>>
    ELSE C9LabelsOf(Head(rows)) \o C9Concat(Tail(rows))

C9Typed(item) == "collection_type" \in DOMAIN item

C9TypesOf(items) == [k \in 1..Len(items) |-> items[k].collection_type]

(* the records of the last run that map to a column prefix *)
C9Stored(prefix) ==
    {k \in 1..Len(collections) : ExpectedKey(collections[k]) = Some(prefix)}

(* C9: every label resolved for a row yields a record, in the order of
   the table; a record of a label that matches no rule has no waste_group,
   and on a row without dates it is collection_type alone; it stays in the
   output, and the stored row has a value only in the columns of the keys
   the other records map to *)
TheoremC9 ==
    call # None =>
        /\ C9TypesOf(SelectSeq(collections, C9Typed))
               = C9Concat(TableRowsOf(html))
        /\ \A k \in 1..Len(collections) :
               (C9Typed(collections[k]) /\ ExpectedKey(collections[k]) = None)
                   => "waste_group" \notin DOMAIN collections[k]
        /\ \A i \in 1..Len(TableRowsOf(html)) :
               TableRowsOf(html)[i] \in C9BareRows =>
                   \E k \in 1..Len(collections) :
                       collections[k]
                           = [collection_type |-> "Special One-Off Collection"]
        /\ ADDRESS_TEXT \in DOMAIN db
        /\ \A i \in 1..Len(ColumnPrefixes) :
               C9Stored(ColumnPrefixes[i]) = {} =>
                   /\ db[ADDRESS_TEXT][NextCol(ColumnPrefixes[i])] = None
                   /\ db[ADDRESS_TEXT][LastCol(ColumnPrefixes[i])] = None

WitnessC9 ==
    /\ call # None
    /\ TableRowsOf(html) = <<TableRows[4], TableRows[2]>>
    /\ Len(collections) = 2
    /\ collections[1] = [collection_type |-> "Special One-Off Collection"]
    /\ "waste_group" \in DOMAIN collections[2]
    /\ db[ADDRESS_TEXT]["green_garden_bin_next_collection"] # None
    /\ db[ADDRESS_TEXT]["black_food_waste_next_collection"] = None

----------------------------------------------------------------------------
(* Claims about store_collections, under Spec *)

(* the positions of the records of the last upsert that map to a prefix *)
C8Hits(prefix) ==
    {k \in 1..Len(collections) : ExpectedKey(collections[k]) = Some(prefix)}

C8Pair(row, prefix, item) ==
    /\ row[NextCol(prefix)] = ExpectedTime(Get(item, "next_collection"))
    /\ row[LastCol(prefix)] = ExpectedTime(Get(item, "last_collection"))

C8Column(row, prefix) ==
    IF C8Hits(prefix) = {}
        THEN row[NextCol(prefix)] = None /\ row[LastCol(prefix)] = None
        ELSE \E k \in C8Hits(prefix) : C8Pair(row, prefix, collections[k])

(* C8: after any sequence of upserts each of the five column pairs holds the
   parsed dates of a record of the last upsert that maps to its key, and is
   null when the last upsert had none; no earlier value survives, and the
   rows of other addresses are left alone *)
TheoremC8 ==
    call # None =>
        /\ ADDRESS_TEXT \in DOMAIN db
        /\ \A i \in 1..Len(ColumnPrefixes) :
               C8Column(db[ADDRESS_TEXT], ColumnPrefixes[i])
        /\ OtherAddress \in DOMAIN db => db[OtherAddress] = StaleRow

WitnessC8 ==
    /\ call # None
    /\ OtherAddress \in DOMAIN db
    /\ Len(collections) = 2
    /\ db[ADDRESS_TEXT]["black_food_waste_next_collection"]
           = Some([wall |-> T17 + 7 * SecondsPerDay, tz |-> "Europe/London"])
    /\ db[ADDRESS_TEXT]["black_food_waste_last_collection"] = None
    /\ db[ADDRESS_TEXT]["black_rubbish_140l_next_collection"] = None

----------------------------------------------------------------------------
(* Claims about the clock readings of one run, under Spec *)

DeltaKeys ==
    {"days_until_next", "minutes_until_next", "time_until_next_text",
     "days_since_last", "minutes_since_last"}

(* the time-delta fields of a record *)
C15Deltas(item) == [key \in DOMAIN item \cap DeltaKeys |-> item[key]]

(* the page of the last run has one row, so its records are split from it *)
C15OneRow ==
    /\ call # None
    /\ html.table # None
    /\ Val(html.table).tbody # None
    /\ Len(Val(Val(html.table).tbody)) = 1

(* C15: the records split from one composite row carry identical time-delta
   fields, also when the clock advances while the row is processed *)
ClaimC15 ==
    C15OneRow =>
        \A i, k \in 1..Len(collections) :
            C15Deltas(collections[i]) = C15Deltas(collections[k])

----------------------------------------------------------------------------
(* Claims about repeated runs, under SpecTwice *)

(* C10: two runs of parse_collection_table on identical html, timezone and
   now return identical sequences *)
ClaimC10 == ret # None => collections = Val(prev)

====
